---- MODULE Spec2Model ----
(***************************************************************************)
(* heco-relayer: the poly (SC) <-> heco (DC) cross-chain relayer.          *)
(*                                                                         *)
(* PolyManager (manager, part_000): MonitorPolyChain tails SC blocks and   *)
(* persists BridgeTransactions; MonitorDeposit drains them, checks the     *)
(* bridge fee and hands one item per tick to an EthSender, whose route     *)
(* consumers broadcast verifyHeaderAndExecuteTx transactions to DC.        *)
(* HecoManager (manager, part_001): the DC -> SC direction with the        *)
(* retry and check buckets.                                                *)
(***************************************************************************)
EXTENDS Integers, Sequences, FiniteSets, TLC

(***************************************************************************)
(* Program constants.                                                      *)
(***************************************************************************)
POLY_USEFUL_BLOCK_NUM == 1
BatchBreak == 1000
ChanLen == 1
GasLimitMax == 300000
FEE_NOCHECK == 0
FEE_HASPAY == 1
FEE_NOTPAY == 2

(***************************************************************************)
(* Bounds of the model.                                                    *)
(***************************************************************************)
\* blocks the SC chain grows by during a run
MaxBlocks == 3
\* blocks by which SC grows while the relay side is observed
MaxGrowth == 1
\* SC -> DC hand-offs counted per key before the count saturates
MaxCount == 2
\* nonces a sender's nonce manager hands out during a run
MaxNonce == 3
\* transient failures (an RPC call, a signing) during a run: every call
\* eventually succeeds; the save of the height is not counted
MaxRpcFail == 1
\* import transactions SC takes during a run
MaxTx == 3
\* entries of the list one call of the fee service returns
MaxFeeList == 2

(***************************************************************************)
(* uint32 arithmetic of PolyManager.currentHeight and latestheight.  A     *)
(* uint32 is written as the integer congruent to it modulo 2^32 of least   *)
(* absolute value: v itself below 2^31, v - 2^32 from there on, so that    *)
(* 0 - 1 = 4294967295 is written -1.  Addition and subtraction wrap as in  *)
(* Go; the comparisons are the unsigned ones.                              *)
(***************************************************************************)
Sub32(a, b) == a - b
Add32(a, b) == a + b
Lt32(a, b) ==
    IF (a >= 0) = (b >= 0) THEN a < b ELSE a >= 0
Le32(a, b) == a = b \/ Lt32(a, b)
\* v % m of the uint32 v, for a modulus m with 2^32 % m = r
Mod32(v, m, r) == IF v >= 0 THEN v % m ELSE (v + r) % m
\* 2^32 % 1000
Pow32Mod1000 == 296

NoKey == "none"
\* hex(param.MakeTxParam.TxHash) of the cross-chain messages SC can emit
Keys == {"k1", "k2", "k3"}
\* the key of an SC event whose MakeTxParam.Method is not an allowed one
BadKeys == {"kx"}
\* the order in which a block lists the events it holds
KeyOrder == <<"k1", "k2", "k3", "kx">>
\* HecoConfig.EnableChangeBookKeeper of the configuration modelled
EnableChangeBookKeeper == TRUE
\* the EthSender accounts of the keystore, in the order of this.senders
SenderSeq == <<"s1">>
Senders == {SenderSeq[i] : i \in 1 .. Len(SenderSeq)}
\* ServiceConfig.RoutineNum of the configuration modelled
RoutineNum == 2
Routes == 0 .. (RoutineNum - 1)
SR == Senders \X Routes

METHODS == {"add", "remove", "swap", "unlock", "addExtension",
            "removeExtension", "registerAsset", "onCrossTransfer"}

MethodOf(k) ==
    CASE k = "k1" -> "unlock"
      [] k = "k2" -> "add"
      [] k = "k3" -> "onCrossTransfer"
      [] OTHER -> "mint"

VARIABLES
    \* ---- PolyManager.MonitorPolyChain (SCMonitor)
    currentHeight,      \* PolyManager.currentHeight (uint32)
    polyHeight,         \* the height bucket of the store (uint32)
    pcM,                \* "init" | "wait" | "loop" | "save" | "crashed", or the
                        \* call handleDepositEvents is at: "hdr", "keepers",
                        \* "anchor", "proof", "fetch", "events", "sender",
                        \* "header", "hdrSend", "hdrConfirm"
    latestheight,       \* the tick's local latestheight
    blockHandleResult,  \* the tick's local blockHandleResult
    \* ---- locals of the running handleDepositEvents and commitHeader
    pendingEvents,      \* the events of the block the event loop has not reached
    cnt,                \* cnt
    handling,           \* lastEpoch, isCurr, isEpoch, anchor and hp as it
                        \* computed them
    headerTx,           \* <<sender>> of commitHeader, then <<sender, nonce>>
    startFlag,          \* --polystart as given to NewPolyManager
    \* ---- SC chain and DC light client, the environment of SCMonitor
    scLatest,           \* what polySdk.GetCurrentBlockHeight() answers
    scTop,              \* the height the SC chain reaches in this run
    scEvents,           \* height -> keys of the makeProof events of that block
    scEpochAt,          \* height of the header that announces a new keeper set
    epochStart,         \* ECCD.getCurEpochStartHeight()
    keepers,            \* ECCD.getCurEpochConPubKeyBytes(), as a keeper-set id
    \* ---- the bridge_transactions bucket
    btStore,            \* key -> serialized BridgeTransaction
    \* ---- EthSender accounts: tools.NonceManager and what DC saw of them
    nonceNext,          \* sender -> next fresh nonce of its nonce manager
    nonceReturned,      \* sender -> nonces given back by ReturnNonce
    broadcast,          \* <<sender, nonce, what>> of every tx DC accepted
    rpcFails,           \* transient failures (RPC, signing) so far
    \* ---- PolyManager.MonitorDeposit (RelayWorker SC -> DC)
    pcR,                \* "idle" | "fee" | "drop" | "balance" | "commit" |
                        \* "estimate" | "send" | "delete" | "persist"
    bridgeTransactions, \* the tick's in-memory map key -> BridgeTransaction
    maxFeeOfTxHash,     \* the key the tick selected, or NoKey
    sendTo,             \* <<sender>> of the tick, then <<sender, route>>
    todo,               \* the keys a loop over the map has yet to reach
    \* ---- EthSender routes
    cmap,               \* sender -> routes whose channel and consumer exist
    chans,              \* <<sender, route>> -> the jobs buffered on the channel
    worker,             \* <<sender, route>> -> the job its consumer handles
    \* ---- DC
    executed,           \* keys ECCD.checkIfFromChainTxExist answers true for
    dcPending,          \* the <<sender, nonce, what>> DC has accepted and not
                        \* yet executed
    \* ---- observations of the relay pipeline, for the properties
    handed,             \* key -> jobs enqueued for it
    accepted,           \* key -> transactions DC accepted for broadcast
    tickCommits,        \* commitDepositEventsWithHeader calls of the tick
    tickRemoved,        \* store deletions after a submission in the tick
    submitRemoved,      \* keys deleted because the submission returned true
    notPaid,            \* keys of the map for which the list checkFees of the
                        \* tick has a NOTPAY or NOTPOLYPROXY entry
    everCommitted,      \* keys ever passed to commitDepositEventsWithHeader
    stored,             \* key -> items of it in the store at the start or put
                        \* there by SCMonitor since
    \* ---- observations of the SCMonitor tick, for the properties
    tickStartPoly,      \* polyHeight when the current/last tick entered its loop
    failedAt,           \* {h} once handleDepositEvents(h) returned false in the tick
    handledOk,          \* heights handled successfully in the current/last tick
    savedOk,            \* how the latest UpdatePolyHeight of this run ended:
                        \* "ok" or "failed"; "none" before the first one
    handleFails,        \* calls that failed in the current/last handleDepositEvents
    \* ---- the DC -> SC direction: the retry and check buckets
    retryBucket,        \* the serialized CrossTransfers of the retry bucket
    checkBucket,        \* SC tx hash -> serialized CrossTransfer
    fetched,            \* observation: the CrossTransfers ever put in the retry bucket
    polyTx,             \* SC tx hash -> its transfer and its event, if any
    imported,           \* CrossTransfers SC has imported
    \* ---- HecoManager.handleCachedLockDepositEvents
    pcW,                \* "idle" | "item" | "putcheck" | "delretry"
    retryList,          \* what is left of the list the tick loaded
    txHash,             \* the hash commitProof returned for the item
    \* ---- HecoManager.checkLockDepositEvents
    pcC,                \* "idle" | "item" | "delcheck"
    checkMap,           \* what is left of the map the tick loaded
    checkKey,           \* the key whose entry is being settled
    answer,             \* how the last commitProof of the retry tick ended
    \* ---- observations of the routes, for the properties
    queued,             \* <<sender, route>> -> the jobs sent on the channel, in order
    served,             \* <<sender, route>> -> the jobs its consumer received, in order
    ended,              \* <<sender, route>> -> the calls of sendTxToEth that returned
    \* ---- HecoManager's header sync (DC -> SC)
    hecoLatest,         \* DC's node height (tools.GetNodeHeight)
    captured,           \* the header fetch, the read of SC's record and the
                        \* event fetches of the last pass
    syncTxHeight,       \* h of the last poll of commitHecoHeaderToPoly
    syncCurr,           \* curr of the last poll
    hecoCurrentHeight,  \* HecoManager.currentHeight (uint64; -1 is 2^64 - 1)
    header4sync,        \* the heights of the headers of the batch, in order
    syncRecord,         \* height -> SC's header-sync record against DC's hash
    pcH,                \* "off", "wait", "loop", "events", "put", "commit",
                        \* "confirm", "rollback"
    retH,               \* where commitHecoHeaderToPoly returns to
    hecoEvents,         \* DC height -> the CrossTransfers of its lock events
    hecoPending,        \* the events of the pass fetchLockDepositEvents has not reached
    rollFrom,           \* <<currentHeight at the call of the last rollback>>
    rollTo,             \* <<currentHeight, header4sync at its return>>
    \* ---- locals of the running commitDepositEventsWithHeader
    gasLimit,           \* the inflated gas limit, 0 before it is computed
    txExist,            \* the answer of CheckIfFromChainTxExist
    \* ---- one call of a function of the relayer on its own: a value on
    \* its way through the store's binary form, or the inputs of IsEpoch
    rtInput,            \* <<name, inputs>>
    rtBytes,            \* what Serialization wrote
    rtOutput,           \* what Deserialization read, or what the call returned
    pcT,                \* "off", "in", "wire", "out"
    \* ---- the end of the last handleDepositEvents
    headerCall,         \* "early" return, "none", or commitHeader's "true" / "false"
    isEpochCurr,        \* isEpoch && isCurr as it computed them
    \* ---- the process and its goroutines (main.go)
    task,               \* goroutine -> "wait" (at its select), "tick", "returned"
    signal,             \* the signal the handler has received, or "none"
    exit,               \* the channel exit of waitToExit is closed
    exitChan,           \* manager -> "open", "send" (Stop is at its send),
                        \* "close" (the send was taken), "closed"
    process             \* "running" | "exited"

handleVars == <<pendingEvents, cnt, handling, headerTx, handleFails>>
monVars == <<currentHeight, polyHeight, pcM, latestheight, blockHandleResult,
             startFlag, tickStartPoly, failedAt, handledOk, savedOk, handleVars>>
envVars == <<scLatest, scTop, scEvents, scEpochAt, epochStart, keepers>>

nonceVars == <<nonceNext, nonceReturned, broadcast>>

relayVars == <<pcR, bridgeTransactions, maxFeeOfTxHash, sendTo, todo>>
routeVars == <<cmap, chans, worker>>
dcVars == <<executed, dcPending>>
obsVars == <<handed, accepted, tickCommits, tickRemoved, submitRemoved,
             notPaid, everCommitted, stored>>

hecoVars == <<answer, retryBucket, checkBucket, fetched, polyTx, imported,
              pcW, retryList, txHash, pcC, checkMap, checkKey>>
fifoVars == <<queued, served, ended>>
forkVars == <<captured, hecoLatest, syncTxHeight, syncCurr, hecoCurrentHeight, header4sync, syncRecord, pcH, retH,
              rollFrom, rollTo, hecoEvents, hecoPending>>
commitVars == <<gasLimit, txExist>>
epochVars == <<headerCall, isEpochCurr>>
exitVars == <<task, signal, exit, exitChan, process>>
coreVars == <<monVars, envVars, btStore, nonceVars, relayVars, routeVars,
              dcVars, obsVars, fifoVars, commitVars, epochVars>>
scVars == <<coreVars, exitVars>>
wireVars == <<rtInput, rtBytes, rtOutput, pcT>>
sideVars == <<forkVars, wireVars, exitVars>>
scdcVars == <<scVars, sideVars>>

vars == <<monVars, envVars, btStore, nonceVars, rpcFails, relayVars,
          routeVars, dcVars, obsVars, hecoVars, fifoVars, forkVars,
          commitVars, wireVars, epochVars, exitVars>>

(***************************************************************************)
(* BridgeTransaction and its binary form (part_000:65-139).  The header,   *)
(* param, polyTxHash and rawAuditPath of an item are fixed by its key; the *)
(* fields that vary are the (headerProof, anchorHeader) pair and the fee   *)
(* annotation.  The wire form is the sequence of the fields written.       *)
(***************************************************************************)
NoAnchor == "nil"

BridgeTransaction(hp, anchor, pay, f) ==
    [headerProof |-> hp, anchorHeader |-> anchor, hasPay |-> pay, fee |-> f]

\* BridgeTransaction.Serialization: the presence byte is 1 only when both the
\* proof and the anchor are there; otherwise neither is written.
Serialization(bt) ==
    IF bt.headerProof # "" /\ bt.anchorHeader # NoAnchor
    THEN <<1, bt.headerProof, bt.anchorHeader, bt.hasPay, bt.fee>>
    ELSE <<0, bt.hasPay, bt.fee>>

\* BridgeTransaction.Deserialization: reads the pair only after a presence
\* byte of 1, and leaves the zero values ("" and nil) otherwise.
Deserialization(bytes) ==
    IF bytes[1] = 1
    THEN BridgeTransaction(bytes[2], bytes[3], bytes[4], bytes[5])
    ELSE BridgeTransaction("", NoAnchor, bytes[2], bytes[3])

\* db.PutBridgeTransactions / db.DeleteBridgeTransactions on a bucket value
PutBridgeTransactions(store, k, v) ==
    [x \in (DOMAIN store) \cup {k} |-> IF x = k THEN v ELSE store[x]]
DeleteBridgeTransactions(store, k) ==
    [x \in (DOMAIN store) \ {k} |-> store[x]]

RECURSIVE PutAll(_, _, _)
\* the Put of every key of ks, each with the value val(k)
PutAll(store, ks, val) ==
    IF ks = {} THEN store
    ELSE LET k == CHOOSE x \in ks : TRUE
         IN PutAll(PutBridgeTransactions(store, k, val[k]), ks \ {k}, val)

(***************************************************************************)
(* The SC chain as SCMonitor sees it.                                      *)
(***************************************************************************)
EventsAt(h) == IF h \in DOMAIN scEvents THEN scEvents[h] ELSE {}
\* keeper-set id announced by the header at height h (0: no transition)
HdrKeepers(h) == IF h = scEpochAt THEN 2 ELSE 0
\* polySdk.GetHeaderByHeight(h) can only answer for a block that exists
HeaderExists(h) == Le32(h, scLatest)

(***************************************************************************)
(* tools.NonceManager of one EthSender: a returned nonce is handed out     *)
(* again before a fresh one.                                               *)
(***************************************************************************)
CanGetNonce(s) == nonceReturned[s] # {} \/ nonceNext[s] < MaxNonce

GetAddressNonce(s) ==
    IF nonceReturned[s] # {}
    THEN CHOOSE n \in nonceReturned[s] : \A m \in nonceReturned[s] : n <= m
    ELSE nonceNext[s]

\* the nonce manager after GetAddressNonce(s)
TakeNonce(s) ==
    IF nonceReturned[s] # {}
    THEN /\ nonceReturned' =
              [nonceReturned EXCEPT ![s] = @ \ {GetAddressNonce(s)}]
         /\ UNCHANGED nonceNext
    ELSE /\ nonceNext' = [nonceNext EXCEPT ![s] = @ + 1]
         /\ UNCHANGED nonceReturned

\* the returned nonces after ReturnNonce(s, n)
ReturnNonce(s, n) == [nonceReturned EXCEPT ![s] = @ \cup {n}]

(***************************************************************************)
(* PolyManager.selectSender (part_000:444-466) on the balances of the      *)
(* senders, in the order of this.senders, and on the number sum.Rand       *)
(* draws.  A number of wei is written hi * 2^61 + lo with a small lo, so   *)
(* that balances on both sides of 2^63 wei are at hand.                    *)
(***************************************************************************)
Wei(hi, lo) == [hi |-> hi, lo |-> lo]

\* x.Cmp(y) is -1
LtWei(x, y) == x.hi < y.hi \/ (x.hi = y.hi /\ x.lo < y.lo)

\* sum.Int64() of a sum that is not negative (part_000:456): its low 64
\* bits read as a two's-complement number, 2^64 being 8 * 2^61
Int64(x) ==
    LET h == x.hi % 8
    IN Wei(IF h >= 4 THEN h - 8 ELSE h, x.lo)

RECURSIVE SumTo(_, _)
\* sum after the first i balances (part_000:455)
SumTo(balances, i) ==
    IF i = 0 THEN Wei(0, 0)
    ELSE LET rest == SumTo(balances, i - 1)
         IN Wei(rest.hi + balances[i].hi, rest.lo + balances[i].lo)

\* balArr (part_000:456)
BalArr(balances) ==
    [i \in 1 .. Len(balances) |-> Int64(SumTo(balances, i))]

\* the lo parts at hand for a number drawn
DrawnLo == 0 .. (MaxCount + 1)

\* what sum.Rand(rnd, sum) can give: a number of [0, sum), 0 for sum 0
RandBelow(sum) ==
    IF sum = Wei(0, 0) THEN {Wei(0, 0)}
    ELSE {d \in {Wei(hi, lo) : hi \in 0 .. sum.hi, lo \in DrawnLo} :
             LtWei(d, sum)}

\* the index of the sender returned, given the number drawn
\* (part_000:459-465)
selectSender(balances, drawn) ==
    LET balArr == BalArr(balances)
        hits   == {i \in 1 .. Len(balances) : ~LtWei(balArr[i], drawn)}
    IN IF hits = {} THEN 1
       ELSE CHOOSE i \in hits : \A j \in hits : i <= j

\* the balances a sender can have: nothing, a few wei, or 2^62 or 2^63
\* wei and a few more
Balances == {Wei(hi, lo) : hi \in {0, 2, 4}, lo \in 0 .. 1}

\* the balances of one to MaxCount + 1 senders
BalanceLists ==
    UNION {[1 .. n -> Balances] : n \in 1 .. (MaxCount + 1)}

\* the senders selectSender can return, whatever the balances are
Selectable ==
    {SenderSeq[selectSender(b[1], b[2])] :
        b \in UNION {{<<balances, drawn>> :
                         drawn \in RandBelow(SumTo(balances, Len(balances)))} :
                     balances \in [1 .. Len(SenderSeq) -> Balances]}}

SenderStart ==
    /\ rtInput \in {<<"selectSender", balances, drawn>> :
                       balances \in BalanceLists,
                       drawn \in {Wei(hi, lo) :
                                    hi \in 0 .. (4 * (MaxCount + 1)),
                                    lo \in DrawnLo}}
    /\ rtInput[3] \in RandBelow(SumTo(rtInput[2], Len(rtInput[2])))
    /\ rtBytes = <<>>
    /\ rtOutput = <<>>
    /\ pcT = "in"

SenderCall ==
    /\ pcT = "in"
    /\ rtInput[1] = "selectSender"
    /\ rtOutput' = <<selectSender(rtInput[2], rtInput[3])>>
    /\ pcT' = "out"
    /\ UNCHANGED <<rtInput, rtBytes>>
    /\ UNCHANGED <<scVars, hecoVars, forkVars, rpcFails>>

(***************************************************************************)
(* PolyManager.findLatestHeight (part_000:217-224): 0 when the call fails. *)
(***************************************************************************)
findLatestHeight(ok) == IF ok THEN epochStart ELSE 0

(***************************************************************************)
(* PolyManager.IsEpoch (part_000:286-324), on the keeper-set id of the     *)
(* header: no transition announced, or the set DC already has, is no epoch.*)
(***************************************************************************)
IsEpoch(hdrHeight) ==
    IF HdrKeepers(hdrHeight) = 0 THEN FALSE
    ELSE HdrKeepers(hdrHeight) # keepers

Alive == pcM # "crashed"

IdleWorker == [job |-> NoKey, nonce |-> 0, phase |-> "idle"]

(***************************************************************************)
(* PolyManager.init and MonitorPolyChain (part_000:226-284).               *)
(***************************************************************************)
\* PolyManager.init: the flag wins; otherwise the larger of the persisted
\* height and DC's epoch start height.
\* the largest of the three
InitHeightMax(flag, dbHeight, latestHeight) ==
    CHOOSE h \in {flag, dbHeight, latestHeight} :
       \A g \in {flag, dbHeight, latestHeight} : ~Lt32(h, g)
InitHeight(flag, dbHeight, latestHeight) ==
    IF Lt32(0, flag) THEN flag
    ELSE IF Lt32(dbHeight, latestHeight) THEN latestHeight ELSE dbHeight

MonitorInit ==
    /\ pcM = "init"
    /\ \E ok \in BOOLEAN :
          \* findLatestHeight is only called without a flag
          /\ ok \/ (startFlag = 0 /\ rpcFails < MaxRpcFail)
          /\ currentHeight' = InitHeight(startFlag, polyHeight, findLatestHeight(ok))
          /\ rpcFails' = rpcFails + (IF ok THEN 0 ELSE 1)
    /\ pcM' = "wait"
    /\ UNCHANGED <<polyHeight, latestheight, blockHandleResult, startFlag,
                   tickStartPoly, failedAt, handledOk, savedOk, handleVars>>
    /\ UNCHANGED <<envVars, btStore, nonceVars>>
    /\ UNCHANGED <<relayVars, routeVars, dcVars, obsVars, hecoVars, fifoVars, sideVars, commitVars, epochVars>>

\* the guard of the tick (part_000:259): too close to the tip, no work
TooClose(latest, cur) == Lt32(Sub32(latest, cur), POLY_USEFUL_BLOCK_NUM)

\* case <-monitorTicker.C, up to the entry of the height loop
MonitorTick ==
    /\ pcM = "wait"
    /\ \E ok \in BOOLEAN :
          LET latest == Sub32(scLatest, 1)
          IN /\ ok \/ rpcFails < MaxRpcFail
             /\ rpcFails' = rpcFails + (IF ok THEN 0 ELSE 1)
             /\ IF ~ok \/ TooClose(latest, currentHeight)
                THEN UNCHANGED monVars
                ELSE /\ latestheight' = latest
                     /\ blockHandleResult' = TRUE
                     /\ pcM' = "loop"
                     /\ tickStartPoly' = polyHeight
                     /\ failedAt' = {}
                     /\ handledOk' = 0
                     /\ UNCHANGED <<currentHeight, polyHeight, startFlag, savedOk,
                                    handleVars>>
    /\ UNCHANGED <<envVars, btStore, nonceVars>>
    /\ UNCHANGED <<relayVars, routeVars, dcVars, obsVars, hecoVars, fifoVars, sideVars, commitVars, epochVars>>

\* the loop condition (part_000:264)
InSafeRange(cur, latest) == Le32(cur, Sub32(latest, POLY_USEFUL_BLOCK_NUM))

\* a loop that goes on after a height that returned false
AfterHeightOn(res, next) ==
    IF Mod32(next, BatchBreak, Pow32Mod1000) = 0 THEN "save" ELSE "loop"
\* pc after a height was handled with result res, the cursor then at next
AfterHeight(res, next) ==
    IF ~res THEN "save"
    ELSE IF Mod32(next, BatchBreak, Pow32Mod1000) = 0 THEN "save" ELSE "loop"

\* a loop that steps over a height whatever its result
NextHeightAlways(res, cur) == Add32(cur, 1)
\* the cursor after a height was handled with result res
NextHeight(res, cur) == IF res THEN Add32(cur, 1) ELSE cur

(***************************************************************************)
(* PolyManager.handleDepositEvents (part_000:326-442) for one height, a    *)
(* step for each stretch of it that the other goroutines can run between:  *)
(* the reads up to the event list, each event of the loop, and the calls   *)
(* of the inline commitHeader (part_000:727-787).                          *)
(***************************************************************************)
\* the test before the inline commitHeader (part_000:436)
CallsCommitHeader(n, isEpoch, isCurr) ==
    n = 0 /\ isEpoch /\ isCurr /\ EnableChangeBookKeeper

\* a persist step without the method filter
PersistedAny(k, got) == got
\* the event k passes every filter and is persisted, got telling whether
\* its GetCrossStatesProof call succeeded (part_000:370-385)
Persisted(k, got) == got /\ MethodOf(k) \in METHODS

\* a count of the observations, kept within MaxCount
Bump(n) == IF n < MaxCount THEN n + 1 ELSE n

\* 1 for a call that failed
Cost(ok) == IF ok THEN 0 ELSE 1

\* the events of the block at height h, in its order
EventList(h) == SelectSeq(KeyOrder, LAMBDA k : k \in EventsAt(h))

\* the locals before handleDepositEvents has computed them
NoLocals ==
    [lastEpoch |-> 0, isCurr |-> FALSE, isEpoch |-> FALSE,
     anchor |-> NoAnchor, hp |-> ""]

\* handleDepositEvents(currentHeight) returns res, or dies with crash, and
\* the pass of the height loop ends (part_000:265-276); call tells what
\* became of commitHeader
EndHeight(res, crash, call) ==
    /\ blockHandleResult' = res
    /\ currentHeight' = NextHeight(res, currentHeight)
    /\ pcM' = IF crash THEN "crashed"
              ELSE AfterHeight(res, NextHeight(res, currentHeight))
    /\ failedAt' = IF res THEN failedAt ELSE {currentHeight}
    /\ handledOk' = IF res THEN handledOk + 1 ELSE handledOk
    /\ headerCall' = call
    /\ pendingEvents' = <<>>
    /\ cnt' = 0
    /\ handling' = NoLocals
    /\ headerTx' = <<>>

\* handleDepositEvents goes on at pc
GoesOn(pc) ==
    /\ pcM' = pc
    /\ UNCHANGED <<blockHandleResult, currentHeight, failedAt, handledOk,
                   headerCall>>

\* the event loop with the events left and n items stored so far
\* (part_000:359), and what follows its last event (part_000:436-441)
EventLoop(left, n, locals) ==
    IF left # <<>> \/ CallsCommitHeader(n, locals.isEpoch, locals.isCurr)
    THEN /\ GoesOn(IF left # <<>> THEN "events" ELSE "sender")
         /\ pendingEvents' = left
         /\ cnt' = n
         /\ handling' = locals
         /\ headerTx' = <<>>
    ELSE EndHeight(TRUE, FALSE, "none")

\* the proof and the anchor are fetched for a height that is not past DC's
\* epoch start and for an epoch header (part_000:343, 347)
NeedsProof(locals) == (~locals.isCurr) \/ locals.isEpoch

\* the height of the anchor header (part_000:344, 348)
AnchorHeight(height, locals) ==
    IF ~locals.isCurr THEN Add32(locals.lastEpoch, 1) ELSE Add32(height, 2)

\* where handleDepositEvents goes on once isEpoch is known
AfterIsEpoch(locals) == IF NeedsProof(locals) THEN "anchor" ELSE "fetch"

\* a call of handleDepositEvents has answered, ok or with an error; a call
\* for a block SC does not have (free) fails by itself
Answered(ok, free) ==
    /\ ok \/ free \/ rpcFails < MaxRpcFail
    /\ rpcFails' = rpcFails + (IF ok \/ free THEN 0 ELSE 1)
    /\ handleFails' = handleFails + Cost(ok)

\* the monitor is in a pass of the height loop
InHeightLoop ==
    pcM \in {"loop", "hdr", "keepers", "anchor", "proof", "fetch", "events",
             "sender", "header", "hdrSend", "hdrConfirm"}

\* the step in which handleDepositEvents(currentHeight) returns, or dies,
\* and the pass of the height loop ends
EndsHeight ==
    /\ InHeightLoop
    /\ InSafeRange(currentHeight, latestheight)
    /\ pcM' \in {"save", "crashed"} \/ currentHeight' # currentHeight

\* the head of the height loop and, inside the range, the call of
\* handleDepositEvents up to the answer of findLatestHeight
\* (part_000:264-265, 327)
MonitorLoop ==
    /\ pcM = "loop"
    /\ IF ~InSafeRange(currentHeight, latestheight)
       THEN /\ pcM' = "save"
            /\ UNCHANGED <<handleVars, rpcFails, isEpochCurr>>
       ELSE \E ok \in BOOLEAN :
            /\ ok \/ rpcFails < MaxRpcFail
            /\ rpcFails' = rpcFails + Cost(ok)
            /\ handleFails' = Cost(ok)
            /\ handling' = [NoLocals EXCEPT !.lastEpoch = findLatestHeight(ok)]
            /\ isEpochCurr' = FALSE
            /\ pcM' = "hdr"
            /\ UNCHANGED <<pendingEvents, cnt, headerTx>>
    /\ UNCHANGED <<currentHeight, blockHandleResult, failedAt, handledOk,
                   headerCall>>
    /\ UNCHANGED <<polyHeight, latestheight, startFlag, tickStartPoly, savedOk>>
    /\ UNCHANGED <<envVars, btStore, nonceVars>>
    /\ UNCHANGED <<relayVars, routeVars, dcVars, obsVars, hecoVars, fifoVars, sideVars, commitVars>>

\* GetHeaderByHeight(height + 1), isCurr, and IsEpoch for a header that
\* announces no keeper set (part_000:328-333, 288-292)
MonitorHeader ==
    /\ pcM = "hdr"
    /\ \E ok \in BOOLEAN :
          LET hdrH   == Add32(currentHeight, 1)
              locals == [handling EXCEPT
                            !.isCurr = Lt32(handling.lastEpoch, hdrH)]
          IN
          /\ ok => HeaderExists(hdrH)
          /\ Answered(ok, ~HeaderExists(hdrH))
          /\ IF ok
             THEN /\ GoesOn(IF HdrKeepers(hdrH) # 0 THEN "keepers"
                            ELSE AfterIsEpoch(locals))
                  /\ handling' = locals
                  /\ UNCHANGED <<pendingEvents, cnt, headerTx>>
             ELSE EndHeight(FALSE, FALSE, "early")
    /\ UNCHANGED <<polyHeight, latestheight, startFlag, tickStartPoly, savedOk,
                   isEpochCurr>>
    /\ UNCHANGED <<envVars, btStore, nonceVars>>
    /\ UNCHANGED <<relayVars, routeVars, dcVars, obsVars, hecoVars, fifoVars, sideVars, commitVars>>

\* IsEpoch on a header that announces a keeper set: the query of DC's
\* keepers and the comparison (part_000:334-338, 293-323)
MonitorIsEpoch ==
    /\ pcM = "keepers"
    /\ \E ok \in BOOLEAN :
          LET locals == [handling EXCEPT
                            !.isEpoch = IsEpoch(Add32(currentHeight, 1))]
          IN
          /\ Answered(ok, FALSE)
          /\ IF ok
             THEN /\ GoesOn(AfterIsEpoch(locals))
                  /\ handling' = locals
                  /\ isEpochCurr' = (locals.isEpoch /\ locals.isCurr)
                  /\ UNCHANGED <<pendingEvents, cnt, headerTx>>
             ELSE /\ EndHeight(FALSE, FALSE, "early")
                  /\ isEpochCurr' = FALSE
    /\ UNCHANGED <<polyHeight, latestheight, startFlag, tickStartPoly, savedOk>>
    /\ UNCHANGED <<envVars, btStore, nonceVars>>
    /\ UNCHANGED <<relayVars, routeVars, dcVars, obsVars, hecoVars, fifoVars, sideVars, commitVars>>

\* GetHeaderByHeight of the anchor (part_000:344, 348): its error is
\* dropped and the anchor stays nil
MonitorAnchor ==
    /\ pcM = "anchor"
    /\ \E ok \in BOOLEAN :
          LET anchorH == AnchorHeight(currentHeight, handling)
          IN
          /\ ok => HeaderExists(anchorH)
          /\ Answered(ok, ~HeaderExists(anchorH))
          /\ handling' = [handling EXCEPT
                             !.anchor = IF ok THEN "anchor" ELSE NoAnchor]
    /\ GoesOn("proof")
    /\ UNCHANGED <<pendingEvents, cnt, headerTx>>
    /\ UNCHANGED <<polyHeight, latestheight, startFlag, tickStartPoly, savedOk,
                   isEpochCurr>>
    /\ UNCHANGED <<envVars, btStore, nonceVars>>
    /\ UNCHANGED <<relayVars, routeVars, dcVars, obsVars, hecoVars, fifoVars, sideVars, commitVars>>

\* GetMerkleProof against the anchor's block (part_000:345-346, 349-350):
\* its error is dropped and proof.AuditPath dereferences nil
MonitorProof ==
    /\ pcM = "proof"
    /\ \E ok \in BOOLEAN :
          LET anchorH == AnchorHeight(currentHeight, handling)
          IN
          /\ ok => HeaderExists(anchorH)
          /\ Answered(ok, ~HeaderExists(anchorH))
          /\ IF ok
             THEN /\ GoesOn("fetch")
                  /\ handling' = [handling EXCEPT !.hp = "hp"]
                  /\ UNCHANGED <<pendingEvents, cnt, headerTx, isEpochCurr>>
             ELSE /\ EndHeight(FALSE, TRUE, "early")
                  /\ isEpochCurr' = FALSE
    /\ UNCHANGED <<polyHeight, latestheight, startFlag, tickStartPoly, savedOk>>
    /\ UNCHANGED <<envVars, btStore, nonceVars>>
    /\ UNCHANGED <<relayVars, routeVars, dcVars, obsVars, hecoVars, fifoVars, sideVars, commitVars>>

\* GetSmartContractEventByBlock(height) and the entry of the event loop
\* (part_000:353-359)
MonitorFetch ==
    /\ pcM = "fetch"
    /\ \E ok \in BOOLEAN :
          /\ Answered(ok, FALSE)
          /\ IF ok
             THEN /\ EventLoop(EventList(currentHeight), 0, handling)
                  /\ UNCHANGED isEpochCurr
             ELSE /\ EndHeight(FALSE, FALSE, "early")
                  /\ isEpochCurr' = FALSE
    /\ UNCHANGED <<polyHeight, latestheight, startFlag, tickStartPoly, savedOk>>
    /\ UNCHANGED <<envVars, btStore, nonceVars>>
    /\ UNCHANGED <<relayVars, routeVars, dcVars, obsVars, hecoVars, fifoVars, sideVars, commitVars>>

\* one event of the event loop (part_000:359-434): the proof fetch, the
\* filters and the Put; an event whose proof fetch fails is passed over
MonitorEvent ==
    /\ pcM = "events"
    /\ \E ok \in BOOLEAN :
          LET k   == Head(pendingEvents)
              put == Persisted(k, ok)
          IN
          /\ ok \/ rpcFails < MaxRpcFail
          /\ rpcFails' = rpcFails + Cost(ok)
          /\ handleFails' = handleFails + Cost(ok)
          /\ btStore' =
                IF put
                THEN PutBridgeTransactions(btStore, k, Serialization(
                        BridgeTransaction(handling.hp, handling.anchor,
                                          FEE_NOCHECK, "")))
                ELSE btStore
          /\ stored' = IF put THEN [stored EXCEPT ![k] = Bump(@)] ELSE stored
          /\ EventLoop(Tail(pendingEvents), IF put THEN cnt + 1 ELSE cnt,
                       handling)
    /\ UNCHANGED <<polyHeight, latestheight, startFlag, tickStartPoly, savedOk,
                   isEpochCurr>>
    /\ UNCHANGED <<envVars, nonceVars>>
    /\ UNCHANGED <<handed, accepted, tickCommits, tickRemoved, submitRemoved,
                   notPaid, everCommitted>>
    /\ UNCHANGED <<relayVars, routeVars, dcVars, hecoVars, fifoVars, sideVars, commitVars>>

\* selectSender before commitHeader (part_000:437, 444-466): Balance() of
\* the sender, again after a second on an error
MonitorSelectSender ==
    /\ pcM = "sender"
    /\ \E ok \in BOOLEAN :
          /\ ok \/ rpcFails < MaxRpcFail
          /\ rpcFails' = rpcFails + Cost(ok)
          /\ IF ok
             THEN /\ \E s \in Selectable : headerTx' = <<s>>
                  /\ GoesOn("header")
             ELSE /\ headerTx' = headerTx
                  /\ GoesOn("sender")
    /\ UNCHANGED <<pendingEvents, cnt, handling, handleFails>>
    /\ UNCHANGED <<polyHeight, latestheight, startFlag, tickStartPoly, savedOk,
                   isEpochCurr>>
    /\ UNCHANGED <<envVars, btStore, nonceVars>>
    /\ UNCHANGED <<relayVars, routeVars, dcVars, obsVars, hecoVars, fifoVars, sideVars, commitVars>>

\* commitHeader up to its nonce (part_000:727-764): the gas price, the gas
\* estimate, which fails for a header that ECCM.changeBookKeeper would
\* revert (one not past the current epoch start), and GetAddressNonce
commitHeader ==
    /\ pcM = "header"
    /\ \E out \in {"gasPriceErr", "estimateErr", "revert", "nonce"} :
          LET s    == headerTx[1]
              hdrH == Add32(currentHeight, 1)
              cost == IF out \in {"gasPriceErr", "estimateErr"} THEN 1 ELSE 0
          IN
          /\ rpcFails + cost <= MaxRpcFail
          /\ rpcFails' = rpcFails + cost
          /\ out = "revert" => ~Lt32(epochStart, hdrH)
          /\ out = "nonce" => Lt32(epochStart, hdrH) /\ CanGetNonce(s)
          /\ IF out = "nonce"
             THEN /\ TakeNonce(s)
                  /\ headerTx' = <<s, GetAddressNonce(s)>>
                  /\ GoesOn("hdrSend")
                  /\ UNCHANGED <<pendingEvents, cnt, handling, handleFails>>
             ELSE /\ EndHeight(FALSE, FALSE, "false")
                  /\ handleFails' = handleFails + 1
                  /\ UNCHANGED <<nonceNext, nonceReturned>>
    /\ UNCHANGED <<polyHeight, latestheight, startFlag, tickStartPoly, savedOk,
                   isEpochCurr>>
    /\ UNCHANGED <<envVars, btStore, broadcast>>
    /\ UNCHANGED <<relayVars, routeVars, dcVars, obsVars, hecoVars, fifoVars, sideVars, commitVars>>

\* SignTransaction and SendTransaction of commitHeader (part_000:765-774):
\* on an error it returns false and the nonce stays taken
commitHeaderSend ==
    /\ pcM = "hdrSend"
    /\ \E out \in {"signErr", "sendErr", "sent"} :
          /\ out = "sent" \/ rpcFails < MaxRpcFail
          /\ rpcFails' = rpcFails + (IF out = "sent" THEN 0 ELSE 1)
          /\ IF out = "sent"
             THEN /\ broadcast' = broadcast \cup
                        {<<headerTx[1], headerTx[2], "header">>}
                  /\ dcPending' = dcPending \cup
                        {<<headerTx[1], headerTx[2], "header">>}
                  /\ GoesOn("hdrConfirm")
                  /\ UNCHANGED handleVars
             ELSE /\ EndHeight(FALSE, FALSE, "false")
                  /\ handleFails' = handleFails + 1
                  /\ UNCHANGED <<broadcast, dcPending>>
    /\ UNCHANGED <<polyHeight, latestheight, startFlag, tickStartPoly, savedOk,
                   isEpochCurr>>
    /\ UNCHANGED <<envVars, btStore, nonceNext, nonceReturned, executed>>
    /\ UNCHANGED <<relayVars, routeVars, obsVars, hecoVars, fifoVars, sideVars, commitVars>>

\* waitTransactionConfirm of commitHeader and its return (part_000:776-786,
\* 802-824): the wait ends at a poll that finds the transaction executed,
\* or after five minutes, and commitHeader returns true
commitHeaderConfirm ==
    /\ pcM = "hdrConfirm"
    /\ \E out \in {"receipt", "timeout"} :
          out = "receipt" =>
             <<headerTx[1], headerTx[2], "header">> \notin dcPending
    /\ EndHeight(TRUE, FALSE, "true")
    /\ UNCHANGED <<polyHeight, latestheight, startFlag, tickStartPoly, savedOk,
                   isEpochCurr, handleFails, rpcFails>>
    /\ UNCHANGED <<envVars, btStore, nonceVars>>
    /\ UNCHANGED <<relayVars, routeVars, dcVars, obsVars, hecoVars, fifoVars, sideVars, commitVars>>

\* a save of the cursor itself
SavedHeightSame(cur) == cur
\* the height UpdatePolyHeight is given (part_000:277)
SavedHeight(cur) == Sub32(cur, 1)

\* db.UpdatePolyHeight at the end of the tick (part_000:277-279); its error
\* is logged and nothing is tried again, so that it can fail in any tick
MonitorSave ==
    /\ pcM = "save"
    /\ \E ok \in BOOLEAN :
          /\ UNCHANGED rpcFails
          /\ polyHeight' = IF ok THEN SavedHeight(currentHeight) ELSE polyHeight
          /\ savedOk' = IF ok THEN "ok" ELSE "failed"
    /\ pcM' = "wait"
    /\ UNCHANGED <<currentHeight, latestheight, blockHandleResult, startFlag,
                   tickStartPoly, failedAt, handledOk, handleVars>>
    /\ UNCHANGED <<envVars, btStore, nonceVars>>
    /\ UNCHANGED <<relayVars, routeVars, dcVars, obsVars, hecoVars, fifoVars, sideVars, commitVars, epochVars>>

\* the goroutine of MonitorPolyChain (part_000:243-284)
MonitorPolyChain ==
    \/ MonitorInit
    \/ MonitorTick
    \/ MonitorLoop
    \/ MonitorHeader
    \/ MonitorIsEpoch
    \/ MonitorAnchor
    \/ MonitorProof
    \/ MonitorFetch
    \/ MonitorEvent
    \/ MonitorSelectSender
    \/ commitHeader
    \/ commitHeaderSend
    \/ commitHeaderConfirm
    \/ MonitorSave

\* the SC chain produces a block
SCAdvance ==
    /\ scLatest < scTop
    /\ scLatest' = scLatest + 1
    /\ UNCHANGED <<scTop, scEvents, scEpochAt, epochStart, keepers>>
    /\ UNCHANGED <<monVars, btStore, nonceVars, rpcFails>>
    /\ UNCHANGED <<relayVars, routeVars, dcVars, obsVars, hecoVars, fifoVars, sideVars, commitVars, epochVars>>

(***************************************************************************)
(* The bridge-fee service (bridgeSdk.CheckFee) and the fee annotation of   *)
(* PolyManager.handleLockDepositEvents (part_000:498-537).                 *)
(***************************************************************************)
\* CheckFeeRsp.Amount values the service can answer; the last one is no number
Amounts == {"1", "2.5", "10", "n/a"}

\* the amounts the service answers with in a run: one that parses and one
\* that does not
AnswerAmounts == {"1", "n/a"}

\* new(big.Float).SetString(fee): whether it parses, and the value in tenths
FeeOk(fee) == fee \in {"1", "2.5", "10"}
FeeValue(fee) ==
    CASE fee = "1" -> 10
      [] fee = "2.5" -> 25
      [] fee = "10" -> 100
      [] OTHER -> 0

\* the answers for one requested hash: an error entry, a pay state, or a
\* state the relayer does not know (also: no entry for the hash)
FeeResponses ==
    {[error |-> TRUE, state |-> "NOTCHECK", amount |-> ""]}
    \cup {[error |-> FALSE, state |-> "HASPAY", amount |-> a] :
             a \in AnswerAmounts}
    \cup {[error |-> FALSE, state |-> st, amount |-> ""] :
             st \in {"NOTPAY", "NOTPOLYPROXY", "NOTCHECK"}}

\* a response loop that records the amount of a paid fee but not the state
ApplyCheckFeeAmountOnly(item, rsp) ==
    IF rsp.error THEN item
    ELSE IF rsp.state = "HASPAY"
         THEN [item EXCEPT !.fee = rsp.amount]
    ELSE IF rsp.state = "NOTPAY" \/ rsp.state = "NOTPOLYPROXY"
         THEN [item EXCEPT !.hasPay = FEE_NOTPAY]
    ELSE item
\* the body of the response loop for one item (part_000:513-534)
ApplyCheckFee(item, rsp) ==
    IF rsp.error THEN item
    ELSE IF rsp.state = "HASPAY"
         THEN [item EXCEPT !.hasPay = FEE_HASPAY, !.fee = rsp.amount]
    ELSE IF rsp.state = "NOTPAY" \/ rsp.state = "NOTPOLYPROXY"
         THEN [item EXCEPT !.hasPay = FEE_NOTPAY]
    ELSE item

\* the lists bridgeSdk.CheckFee can return over the hashes ks: an entry
\* names any hash, asked for or not, any number of times
FeeEntries(ks) == {[Hash |-> k, rsp |-> r] : k \in ks, r \in FeeResponses}
FeeListsOver(ks) ==
    UNION {[1 .. n -> FeeEntries(ks)] : n \in 0 .. MaxFeeList}

RECURSIVE ApplyCheckFees(_, _)
\* the loop over the entries (part_000:512-535): an entry is applied to
\* the item its hash names, if the map has one
ApplyCheckFees(bts, checkFees) ==
    IF checkFees = <<>> THEN bts
    ELSE LET checkFee == Head(checkFees)
         IN ApplyCheckFees(
               IF checkFee.Hash \in DOMAIN bts
               THEN [bts EXCEPT ![checkFee.Hash] = ApplyCheckFee(@, checkFee.rsp)]
               ELSE bts,
               Tail(checkFees))

\* the hashes of the map for which the list has an entry that says the fee
\* is not paid
AnsweredNotPay(bts, checkFees) ==
    {k \in DOMAIN bts :
        \E i \in 1 .. Len(checkFees) :
           /\ checkFees[i].Hash = k
           /\ ~checkFees[i].rsp.error
           /\ checkFees[i].rsp.state \in {"NOTPAY", "NOTPOLYPROXY"}}

(***************************************************************************)
(* The selection loop of handleLockDepositEvents (part_000:546-559) over   *)
(* the map in the order the iteration happens to take.                     *)
(***************************************************************************)
NoPick == [key |-> NoKey, maxFee |-> 0]

\* the condition under which the loop takes the item as the new maximum
TakesItem(item, maxFee) ==
    item.hasPay = FEE_HASPAY \/ FeeValue(item.fee) > maxFee

\* one iteration of the loop
SelectStep(acc, k, item) ==
    IF ~FeeOk(item.fee) THEN acc
    ELSE IF TakesItem(item, acc.maxFee)
         THEN [key |-> k, maxFee |-> FeeValue(item.fee)]
         ELSE acc

RECURSIVE SelectMaxFee(_, _, _)
SelectMaxFee(order, bts, acc) ==
    IF order = <<>> THEN acc
    ELSE SelectMaxFee(Tail(order), bts,
                      SelectStep(acc, Head(order), bts[Head(order)]))

\* the orders a range over a Go map with these keys can take
Orders(ks) ==
    {o \in [1 .. Cardinality(ks) -> ks] :
        \A i, j \in 1 .. Cardinality(ks) : i # j => o[i] # o[j]}

Restrict(f, ks) == [k \in ks |-> f[k]]

\* the items the tick deletes from the store and from the map for an unpaid
\* fee (part_000:538-545)
Dropped(bts) == {k \in DOMAIN bts : bts[k].hasPay = FEE_NOTPAY}

(***************************************************************************)
(* handleLockDepositEvents (part_000:480-576), a step for each call of it: *)
(* the load of the store, the fee check, each delete of an unpaid item,    *)
(* the calls of the submission and each Put of the rewrite.                *)
(***************************************************************************)
\* the selection loop over the map bts and what follows it
\* (part_000:546-561, 570): selectSender for the item selected, or the
\* rewrite of the map
Selection(bts) ==
    \E order \in Orders(DOMAIN bts) :
       LET pick == SelectMaxFee(order, bts, NoPick)
       IN /\ maxFeeOfTxHash' = pick.key
          /\ pcR' = IF pick.key = NoKey THEN "persist" ELSE "balance"
          /\ todo' = IF pick.key = NoKey THEN DOMAIN bts ELSE {}

\* the tick with the map bts after the fee check (part_000:538): on to the
\* deletes of the unpaid items, or to the selection
AfterFees(bts) ==
    /\ bridgeTransactions' = bts
    /\ IF Dropped(bts) # {}
       THEN /\ pcR' = "drop"
            /\ todo' = Dropped(bts)
            /\ UNCHANGED maxFeeOfTxHash
       ELSE Selection(bts)

\* the keys of the map whose fee is not checked yet (part_000:499-506)
NoCheckFees(bts) == {k \in DOMAIN bts : bts[k].hasPay = FEE_NOCHECK}

\* db.GetAllBridgeTransactions and the map built from it (part_000:481-497);
\* a tick on an empty store returns
RelayTick ==
    /\ Alive
    /\ pcR = "idle"
    /\ LET loaded == [k \in DOMAIN btStore |-> Deserialization(btStore[k])]
       IN
       IF DOMAIN loaded = {}
       THEN UNCHANGED <<relayVars, tickCommits, tickRemoved>>
       ELSE /\ tickCommits' = 0
            /\ tickRemoved' = 0
            /\ sendTo' = sendTo
            /\ IF NoCheckFees(loaded) # {}
               THEN /\ bridgeTransactions' = loaded
                    /\ pcR' = "fee"
                    /\ UNCHANGED <<maxFeeOfTxHash, todo>>
               ELSE AfterFees(loaded)
    /\ UNCHANGED <<btStore, rpcFails>>
    /\ UNCHANGED <<handed, accepted, submitRemoved, notPaid, everCommitted,
                   stored>>
    /\ UNCHANGED <<epochVars, commitVars, sideVars, hecoVars, fifoVars, monVars, envVars, nonceVars, routeVars, dcVars>>

\* checkFee for the unchecked items and the response loop
\* (part_000:507-537): the list returned is applied whatever the error
\* returned with it; no list is the empty one.  The entries name the
\* hashes of the map, asked for or not, or a hash the map does not hold.
\* An error of the call and an entry with an error (which the loop skips)
\* count as transient failures
RelayCheckFee ==
    /\ Alive
    /\ pcR = "fee"
    /\ \E callOk \in BOOLEAN,
          checkFees \in FeeListsOver(DOMAIN bridgeTransactions \cup BadKeys) :
         LET cost == Cost(callOk)
                     + Cardinality({i \in 1 .. Len(checkFees) :
                                       checkFees[i].rsp.error})
         IN
         /\ rpcFails + cost <= MaxRpcFail
         /\ rpcFails' = rpcFails + cost
         /\ notPaid' = AnsweredNotPay(bridgeTransactions, checkFees)
         /\ AfterFees(ApplyCheckFees(bridgeTransactions, checkFees))
    /\ UNCHANGED <<sendTo, btStore>>
    /\ UNCHANGED <<handed, accepted, tickCommits, tickRemoved, submitRemoved,
                   everCommitted, stored>>
    /\ UNCHANGED <<epochVars, commitVars, sideVars, hecoVars, fifoVars, monVars, envVars, nonceVars, routeVars, dcVars>>

\* one pass of the loop over the unpaid items (part_000:538-545):
\* db.DeleteBridgeTransactions and the delete from the map; after the last
\* one the selection
RelayDrop ==
    /\ Alive
    /\ pcR = "drop"
    /\ \E k \in todo :
          LET bts == Restrict(bridgeTransactions,
                              DOMAIN bridgeTransactions \ {k})
          IN
          /\ btStore' = DeleteBridgeTransactions(btStore, k)
          /\ bridgeTransactions' = bts
          /\ IF todo = {k}
             THEN Selection(bts)
             ELSE /\ todo' = todo \ {k}
                  /\ UNCHANGED <<pcR, maxFeeOfTxHash>>
    /\ UNCHANGED <<sendTo, rpcFails>>
    /\ UNCHANGED obsVars
    /\ UNCHANGED <<epochVars, commitVars, sideVars, hecoVars, fifoVars, monVars, envVars, nonceVars, routeVars, dcVars>>

(***************************************************************************)
(* CheckGasLimit (part_000:76-81) on the inflated estimate                 *)
(* uint64(float32(gasLimit) * 1.1) (part_000:697).                         *)
(***************************************************************************)
\* what ethClient.EstimateGas can answer for verifyHeaderAndExecuteTx
GasEstimates == {272728, 272729}

Pow2(n) == 2 ^ n
RECURSIVE BitLen(_)
\* the number of bits of n
BitLen(n) == IF n = 0 THEN 0 ELSE 1 + BitLen(n \div 2)

\* n / 2^s rounded to the nearest integer, a tie to the even one
RoundShift(n, s) ==
    IF s = 0 THEN n
    ELSE LET q == n \div Pow2(s)
             r == n % Pow2(s)
             half == Pow2(s - 1)
         IN IF r > half \/ (r = half /\ q % 2 = 1) THEN q + 1 ELSE q

\* float32(g): the 24-bit mantissa m and the exponent e of m * 2^e
Float32(g) ==
    IF BitLen(g) <= 24 THEN [m |-> g, e |-> 0]
    ELSE [m |-> RoundShift(g, BitLen(g) - 24), e |-> BitLen(g) - 24]

\* the float32 nearest to 1.1 is Float32Of11 / 2^23
Float32Of11 == 9227469

\* uint64(float32(g) * 1.1) (part_000:697): the product of the two
\* mantissas, held as hi * 2^24 + lo, rounded to 24 bits and cut to an
\* integer
InflatedGas(g) ==
    LET f    == Float32(g)
        a    == f.m \div Pow2(12)
        b    == f.m % Pow2(12)
        c    == Float32Of11 \div Pow2(12)
        d    == Float32Of11 % Pow2(12)
        mid  == a * d + b * c
        low  == (mid % Pow2(12)) * Pow2(12) + b * d
        hi   == a * c + mid \div Pow2(12) + low \div Pow2(24)
        lo   == low % Pow2(24)
        k    == BitLen(hi)
        q    == hi * Pow2(24 - k) + lo \div Pow2(k)
        r    == lo % Pow2(k)
        mant == IF k = 0 THEN lo
                ELSE IF r > Pow2(k - 1) \/ (r = Pow2(k - 1) /\ q % 2 = 1)
                     THEN q + 1 ELSE q
        sh   == k + f.e - 23
    IN IF sh >= 0 THEN mant * Pow2(sh) ELSE mant \div Pow2(0 - sh)

\* the inflated limit of each estimate
gasLimitOf == [g \in GasEstimates |-> InflatedGas(g)]

\* a guard that lets every limit pass
CheckGasLimitNever(limit) == FALSE
\* CheckGasLimit returns an error (part_000:76-81)
CheckGasLimit(limit) == limit > GasLimitMax

\* a tick that selects and submits again after a submission
AfterCommitAgain == "commit"
\* where the tick goes once the submission has returned (part_000:560-570):
\* on to the rewrite of the remaining items
AfterCommit == "persist"

\* a tick that keeps the item whose submission returned true
SubmittedKept(k) ==
    /\ btStore' = btStore
    /\ bridgeTransactions' = bridgeTransactions
    /\ submitRemoved' = submitRemoved
    /\ tickRemoved' = tickRemoved
\* the tick's bookkeeping for a submission that returned true
\* (part_000:565-568)
Submitted(k) ==
    /\ btStore' = DeleteBridgeTransactions(btStore, k)
    /\ bridgeTransactions' =
          Restrict(bridgeTransactions, DOMAIN bridgeTransactions \ {k})
    /\ submitRemoved' = submitRemoved \cup {k}
    /\ tickRemoved' = tickRemoved + 1

\* commitDepositEventsWithHeader returns res (part_000:563-565): on to the
\* delete of the item, or to the rewrite of the map
Returns(res) ==
    /\ pcR' = IF res THEN "delete" ELSE AfterCommit
    /\ todo' = IF res THEN todo ELSE DOMAIN bridgeTransactions

(***************************************************************************)
(* selectSender (part_000:444-466, called at 561) and                      *)
(* EthSender.commitDepositEventsWithHeader (part_000:632-725), a step for  *)
(* each call to DC.                                                        *)
(***************************************************************************)
\* Balance() of the sender, again after a second on an error, and the draw
RelaySelectSender ==
    /\ Alive
    /\ pcR = "balance"
    /\ \E ok \in BOOLEAN :
          /\ ok \/ rpcFails < MaxRpcFail
          /\ rpcFails' = rpcFails + Cost(ok)
          /\ IF ok
             THEN /\ \E s \in Selectable : sendTo' = <<s>>
                  /\ pcR' = "commit"
             ELSE UNCHANGED <<sendTo, pcR>>
    /\ UNCHANGED <<bridgeTransactions, maxFeeOfTxHash, todo>>
    /\ UNCHANGED <<epochVars, commitVars, sideVars, hecoVars, fifoVars, monVars, envVars, btStore, nonceVars, routeVars, dcVars, obsVars>>

\* the call and CheckIfFromChainTxExist (part_000:562, 660-665): an answer
\* true ends the call with true; an error is dropped and counts as false
RelayCommit ==
    /\ Alive
    /\ pcR = "commit"
    /\ tickCommits' = tickCommits + 1
    /\ everCommitted' = everCommitted \cup {maxFeeOfTxHash}
    /\ \E ok \in BOOLEAN :
          LET res == ok /\ maxFeeOfTxHash \in executed
          IN
          /\ ok \/ rpcFails < MaxRpcFail
          /\ rpcFails' = rpcFails + Cost(ok)
          /\ txExist' = res
          /\ IF res
             THEN Returns(TRUE)
             ELSE /\ pcR' = "estimate"
                  /\ UNCHANGED todo
    /\ gasLimit' = 0
    /\ UNCHANGED <<bridgeTransactions, maxFeeOfTxHash, sendTo, btStore>>
    /\ UNCHANGED <<handed, accepted, tickRemoved, submitRemoved, notPaid,
                   stored>>
    /\ UNCHANGED <<epochVars, sideVars, hecoVars, fifoVars, monVars, envVars, nonceVars, routeVars, dcVars>>

\* SuggestGasPrice, EstimateGas, the gas guard and the route
\* (part_000:680-716): the estimate fails for a call DC would revert, that
\* of a message it has executed
RelayEstimate ==
    /\ Alive
    /\ pcR = "estimate"
    /\ LET k == maxFeeOfTxHash
           s == sendTo[1]
       IN
       \E out \in {"gasPriceErr", "estimateErr", "revert", "gas"} :
         LET cost == IF out \in {"gasPriceErr", "estimateErr"} THEN 1 ELSE 0
         IN
         /\ rpcFails + cost <= MaxRpcFail
         /\ rpcFails' = rpcFails + cost
         /\ out = "revert" => k \in executed
         /\ out = "gas" => k \notin executed
         /\ IF out = "gas"
            THEN \E g \in GasEstimates :
                    /\ gasLimit' = gasLimitOf[g]
                    /\ IF CheckGasLimit(gasLimitOf[g])
                       THEN /\ Returns(TRUE)
                            /\ UNCHANGED <<sendTo, cmap>>
                       ELSE \E r \in Routes :
                            /\ cmap' = [cmap EXCEPT ![s] = @ \cup {r}]
                            /\ sendTo' = <<s, r>>
                            /\ pcR' = "send"
                            /\ UNCHANGED todo
            ELSE /\ Returns(FALSE)
                 /\ UNCHANGED <<gasLimit, sendTo, cmap>>
    /\ UNCHANGED <<bridgeTransactions, maxFeeOfTxHash, btStore, txExist>>
    /\ UNCHANGED obsVars
    /\ UNCHANGED <<epochVars, sideVars, hecoVars, fifoVars, monVars, envVars, nonceVars, chans, worker, dcVars>>

\* c <- &EthTxInfo{...} (part_000:717-724), which blocks while the channel
\* is full, and the return of true
RelaySend ==
    /\ Alive
    /\ pcR = "send"
    /\ Len(chans[sendTo]) < ChanLen
    /\ chans' = [chans EXCEPT ![sendTo] = Append(@, maxFeeOfTxHash)]
    /\ handed' = [handed EXCEPT ![maxFeeOfTxHash] = Bump(@)]
    /\ queued' = [queued EXCEPT ![sendTo] = Append(@, maxFeeOfTxHash)]
    /\ Returns(TRUE)
    /\ UNCHANGED <<bridgeTransactions, maxFeeOfTxHash, sendTo, cmap, worker,
                   rpcFails, served, ended, btStore>>
    /\ UNCHANGED <<accepted, tickCommits, tickRemoved, submitRemoved, notPaid,
                   everCommitted, stored>>
    /\ UNCHANGED <<epochVars, commitVars, sideVars, hecoVars, monVars, envVars, nonceVars, dcVars>>

\* commitDepositEventsWithHeader has returned true: the item leaves the
\* store and the map (part_000:565-568)
RelayDelete ==
    /\ Alive
    /\ pcR = "delete"
    /\ Submitted(maxFeeOfTxHash)
    /\ pcR' = AfterCommit
    /\ todo' = DOMAIN bridgeTransactions'
    /\ UNCHANGED <<maxFeeOfTxHash, sendTo, rpcFails>>
    /\ UNCHANGED <<handed, accepted, tickCommits, notPaid, everCommitted,
                   stored>>
    /\ UNCHANGED <<epochVars, commitVars, sideVars, hecoVars, fifoVars, monVars, envVars, nonceVars, routeVars, dcVars>>

\* one pass of the rewrite of the items still in the map
\* (part_000:570-575): db.PutBridgeTransactions; after the last one, or
\* with an empty map, the tick returns
RelayPersist ==
    /\ Alive
    /\ pcR = "persist"
    /\ \E ks \in {{k} : k \in todo} \cup (IF todo = {} THEN {{}} ELSE {}) :
          /\ btStore' = PutAll(btStore, ks,
                           [k \in ks |-> Serialization(bridgeTransactions[k])])
          /\ todo' = todo \ ks
          /\ IF todo' = {}
             THEN /\ bridgeTransactions' = <<>>
                  /\ maxFeeOfTxHash' = NoKey
                  /\ pcR' = "idle"
                  /\ gasLimit' = 0
                  /\ txExist' = FALSE
                  /\ sendTo' = <<>>
                  /\ notPaid' = {}
             ELSE UNCHANGED <<bridgeTransactions, maxFeeOfTxHash, pcR,
                              gasLimit, txExist, sendTo, notPaid>>
    /\ UNCHANGED rpcFails
    /\ UNCHANGED <<handed, accepted, tickCommits, tickRemoved, submitRemoved,
                   everCommitted, stored>>
    /\ UNCHANGED <<epochVars, sideVars, hecoVars, fifoVars, monVars, envVars, nonceVars, routeVars, dcVars>>

(***************************************************************************)
(* The consumer of one route (part_000:708-714) running                    *)
(* EthSender.sendTxToEth (part_000:599-630) for each job.                  *)
(***************************************************************************)
\* a consumer that takes the next job whatever it is doing
FreeAlways(w) == TRUE
\* the consumer is between two iterations of for v := range c
\* (part_000:709-713): sendTxToEth of the previous job has returned
Free(w) == w.phase = "idle"

\* the receive of a job (part_000:709) and the call of sendTxToEth for it
WorkerRecv(c) ==
    /\ Alive
    /\ c[2] \in cmap[c[1]]
    /\ Free(worker[c])
    /\ chans[c] # <<>>
    /\ chans' = [chans EXCEPT ![c] = Tail(@)]
    /\ served' = [served EXCEPT ![c] = Append(@, Head(chans[c]))]
    /\ worker' = [worker EXCEPT ![c] =
          [job |-> Head(chans[c]), nonce |-> IdleWorker.nonce,
           phase |-> "nonce"]]
    /\ UNCHANGED <<nonceVars, cmap, queued, ended, rpcFails>>
    /\ UNCHANGED <<epochVars, commitVars, sideVars, hecoVars, monVars, envVars, btStore, relayVars, dcVars, obsVars>>

\* nonceManager.GetAddressNonce (part_000:600)
WorkerNonce(c) ==
    /\ Alive
    /\ worker[c].phase = "nonce"
    /\ CanGetNonce(c[1])
    /\ TakeNonce(c[1])
    /\ worker' = [worker EXCEPT ![c].nonce = GetAddressNonce(c[1]),
                                ![c].phase = "sign"]
    /\ UNCHANGED <<broadcast, cmap, chans, queued, served, ended, rpcFails>>
    /\ UNCHANGED <<epochVars, commitVars, sideVars, hecoVars, monVars, envVars, btStore, relayVars, dcVars, obsVars>>

\* SignTransaction (part_000:602-606): a failure returns the nonce and
\* drops the job
WorkerSign(c) ==
    /\ Alive
    /\ worker[c].phase = "sign"
    /\ \E signOk \in BOOLEAN :
          /\ signOk \/ rpcFails < MaxRpcFail
          /\ rpcFails' = rpcFails + Cost(signOk)
          /\ IF signOk
             THEN /\ worker' = [worker EXCEPT ![c].phase = "send"]
                  /\ UNCHANGED <<nonceNext, nonceReturned, ended>>
             ELSE /\ worker' = [worker EXCEPT ![c] = IdleWorker]
                  /\ nonceReturned' = ReturnNonce(c[1], worker[c].nonce)
                  /\ ended' = [ended EXCEPT ![c] = @ + 1]
                  /\ UNCHANGED nonceNext
    /\ UNCHANGED <<broadcast, cmap, chans, queued, served>>
    /\ UNCHANGED <<epochVars, commitVars, sideVars, hecoVars, monVars, envVars, btStore, relayVars, dcVars, obsVars>>

\* the transaction of the job the consumer of c handles
WorkerTx(c) == <<c[1], worker[c].nonce, worker[c].job>>

\* ethClient.SendTransaction, again after a second on an error
WorkerSend(c) ==
    /\ Alive
    /\ worker[c].phase = "send"
    /\ \E ok \in BOOLEAN :
          /\ ok \/ rpcFails < MaxRpcFail
          /\ rpcFails' = rpcFails + Cost(ok)
          /\ IF ok
             THEN /\ worker' = [worker EXCEPT ![c].phase = "confirm"]
                  /\ broadcast' = broadcast \cup {WorkerTx(c)}
                  /\ dcPending' = dcPending \cup {WorkerTx(c)}
                  /\ accepted' = [accepted EXCEPT ![worker[c].job] = Bump(@)]
             ELSE UNCHANGED <<worker, broadcast, accepted, dcPending>>
    /\ UNCHANGED <<nonceNext, nonceReturned, cmap, chans, executed>>
    /\ UNCHANGED <<handed, tickCommits, tickRemoved, submitRemoved, notPaid,
                   everCommitted, stored>>
    /\ UNCHANGED <<epochVars, commitVars, sideVars, hecoVars, fifoVars, monVars, envVars, btStore, relayVars>>

\* waitTransactionConfirm (part_000:802-824) and the return of sendTxToEth
\* (part_000:617-628): the wait ends at a poll that finds the transaction
\* executed, or after five minutes; the job is finished whatever the outcome
WorkerConfirm(c) ==
    /\ Alive
    /\ worker[c].phase = "confirm"
    /\ \E out \in {"receipt", "timeout"} :
          out = "receipt" => WorkerTx(c) \notin dcPending
    /\ worker' = [worker EXCEPT ![c] = IdleWorker]
    /\ ended' = [ended EXCEPT ![c] = @ + 1]
    /\ UNCHANGED <<cmap, chans, rpcFails, queued, served>>
    /\ UNCHANGED <<epochVars, commitVars, sideVars, hecoVars, monVars, envVars, btStore, nonceVars, relayVars, dcVars, obsVars>>

\* the goroutine of one route (part_000:708-714)
Consumer(c) ==
    \/ WorkerRecv(c)
    \/ WorkerNonce(c)
    \/ WorkerSign(c)
    \/ WorkerSend(c)
    \/ WorkerConfirm(c)

\* the goroutine of MonitorDeposit (part_000:468-478)
MonitorDeposit ==
    \/ RelayTick
    \/ RelayCheckFee
    \/ RelayDrop
    \/ RelaySelectSender
    \/ RelayCommit
    \/ RelayEstimate
    \/ RelaySend
    \/ RelayDelete
    \/ RelayPersist

\* DC executes a transaction it has accepted.  verifyHeaderAndExecuteTx
\* succeeds at most once for a message; changeBookKeeper, whose header is
\* the one that announces the keeper set, succeeds for a header past DC's
\* epoch start and moves the epoch there
DCResolve ==
    /\ \E tx \in dcPending :
          /\ dcPending' = dcPending \ {tx}
          /\ \E ok \in BOOLEAN :
                IF tx[3] = "header"
                THEN /\ ok => Lt32(epochStart, scEpochAt)
                     /\ epochStart' = IF ok THEN scEpochAt ELSE epochStart
                     /\ keepers' = IF ok THEN HdrKeepers(scEpochAt) ELSE keepers
                     /\ UNCHANGED executed
                ELSE /\ ok => tx[3] \notin executed
                     /\ executed' = IF ok THEN executed \cup {tx[3]} ELSE executed
                     /\ UNCHANGED <<epochStart, keepers>>
    /\ UNCHANGED <<scLatest, scTop, scEvents, scEpochAt>>
    /\ UNCHANGED <<epochVars, commitVars, sideVars, hecoVars, fifoVars, monVars, btStore, nonceVars, rpcFails,
                   relayVars, routeVars, obsVars>>

(***************************************************************************)
(* The DC -> SC direction: the retry and check buckets of the store, as    *)
(* HecoManager uses them (part_001:295-386, 466-527, 568-595).             *)
(***************************************************************************)
\* the serialized CrossTransfers DC can emit
Transfers == {"t1", "t2"}

\* db.PutRetry / db.DeleteRetry: the retry bucket is keyed by the serialized
\* CrossTransfer itself
PutRetry(bucket, v) == bucket \cup {v}
DeleteRetry(bucket, v) == bucket \ {v}
\* db.PutCheck / db.DeleteCheck: the check bucket is keyed by the SC tx hash
PutCheck(bucket, k, v) ==
    [x \in (DOMAIN bucket) \cup {k} |-> IF x = k THEN v ELSE bucket[x]]
DeleteCheck(bucket, k) == [x \in (DOMAIN bucket) \ {k} |-> bucket[x]]

Values(f) == {f[x] : x \in DOMAIN f}

\* the orders in which GetAllRetry can list the bucket
Listings(bucket) ==
    {l \in [1 .. Cardinality(bucket) -> bucket] :
        \A i, j \in 1 .. Cardinality(bucket) : i # j => l[i] # l[j]}

\* handleCachedLockDepositEvents loads the retry bucket (part_001:467-470)
RetryTick ==
    /\ pcW = "idle"
    /\ retryBucket # {}
    /\ retryList' \in Listings(retryBucket)
    /\ pcW' = "item"
    /\ UNCHANGED <<retryBucket, checkBucket, fetched, polyTx, imported, txHash,
                   pcC, checkMap, checkKey>>
    /\ UNCHANGED <<scdcVars, rpcFails, answer>>

\* an answer "tx already done" that leaves the item in the retry bucket
AlreadyOnPolyKept(bucket, v) == bucket
\* the retry bucket after SC answered "tx already done" for v
\* (part_001:504-509)
AlreadyOnPoly(bucket, v) == DeleteRetry(bucket, v)

\* a retry bucket that loses the item it could not submit
PassedOverDropped(bucket, v) == DeleteRetry(bucket, v)
\* the retry bucket after the loop went on to the next item with
\* `continue` (part_001:489, 495-498, 501-504, 510-513)
PassedOver(bucket, v) == bucket

\* how the body of the loop can end for an item: too few confirmations
\* ("skip"), no proof from DC, not enough utxo, another error of
\* commitProof, "tx already done", or a transaction sent
RetryOutcomes == {"skip", "noProof", "utxo", "error", "done", "sent"}

\* the body of the loop for one item, up to the return of commitProof
\* (part_001:471-514): the item is skipped (too few confirmations, no proof,
\* not enough utxo, another error), SC answers "tx already done", or SC
\* takes the transaction
RetryItem ==
    /\ pcW = "item"
    /\ IF retryList = <<>>
       THEN /\ pcW' = "idle"
            /\ UNCHANGED <<retryBucket, polyTx, retryList, txHash, answer>>
       ELSE LET v == Head(retryList) IN
            \E out \in RetryOutcomes :
               /\ answer' = out
               /\ out = "done" => v \in imported
               /\ out = "sent" =>
                     v \notin imported /\ Cardinality(DOMAIN polyTx) < MaxTx
               /\ IF out = "sent"
                  THEN /\ txHash' = Cardinality(DOMAIN polyTx) + 1
                       /\ polyTx' = PutCheck(polyTx, txHash',
                                        [transfer |-> v, done |-> FALSE, State |-> 0])
                       /\ pcW' = "putcheck"
                       /\ UNCHANGED <<retryBucket, retryList>>
                  ELSE /\ retryBucket' = IF out = "done"
                                         THEN AlreadyOnPoly(retryBucket, v)
                                         ELSE PassedOver(retryBucket, v)
                       /\ retryList' = Tail(retryList)
                       /\ UNCHANGED <<polyTx, txHash, pcW>>
    /\ UNCHANGED <<checkBucket, fetched, imported, pcC, checkMap, checkKey>>
    /\ UNCHANGED <<scdcVars, rpcFails>>

\* db.PutCheck(txHash, v) (part_001:516)
RetryPutCheck ==
    /\ pcW = "putcheck"
    /\ checkBucket' = PutCheck(checkBucket, txHash, Head(retryList))
    /\ pcW' = "delretry"
    /\ UNCHANGED <<retryBucket, fetched, polyTx, imported, retryList, txHash,
                   pcC, checkMap, checkKey>>
    /\ UNCHANGED <<scdcVars, rpcFails, answer>>

\* db.DeleteRetry(v) (part_001:520), then the next item
RetryDeleteRetry ==
    /\ pcW = "delretry"
    /\ retryBucket' = DeleteRetry(retryBucket, Head(retryList))
    /\ retryList' = Tail(retryList)
    /\ pcW' = "item"
    /\ UNCHANGED <<checkBucket, fetched, polyTx, imported, txHash,
                   pcC, checkMap, checkKey>>
    /\ UNCHANGED <<scdcVars, rpcFails, answer>>

\* checkLockDepositEvents loads the check bucket (part_001:569-572)
CheckTick ==
    /\ pcC = "idle"
    /\ checkBucket # <<>>
    /\ checkMap' = checkBucket
    /\ pcC' = "item"
    /\ UNCHANGED <<retryBucket, checkBucket, fetched, polyTx, imported,
                   pcW, retryList, txHash, checkKey>>
    /\ UNCHANGED <<scdcVars, rpcFails, answer>>

\* a test that takes every event for a failure
NotSuccessAlways(event) == TRUE
\* event.State != 1 (part_001:582)
NotSuccess(event) == event.State # 1

\* the body of the loop for one entry (part_001:573-589), up to its first
\* write: no event yet or an error, an event of a success, or an event of a
\* failure
CheckItem ==
    /\ pcC = "item"
    /\ IF DOMAIN checkMap = {}
       THEN /\ pcC' = "idle"
            /\ UNCHANGED <<retryBucket, checkBucket, checkMap, checkKey, rpcFails>>
       ELSE \E k \in DOMAIN checkMap, ok \in BOOLEAN :
            /\ ok \/ rpcFails < MaxRpcFail
            /\ rpcFails' = rpcFails + Cost(ok)
            /\ IF ~ok \/ ~polyTx[k].done
               THEN /\ checkMap' = DeleteCheck(checkMap, k)
                    /\ UNCHANGED <<retryBucket, checkBucket, checkKey, pcC>>
               ELSE IF NotSuccess(polyTx[k])
               THEN /\ retryBucket' = PutRetry(retryBucket, checkMap[k])
                    /\ checkKey' = k
                    /\ pcC' = "delcheck"
                    /\ UNCHANGED <<checkBucket, checkMap>>
               ELSE /\ checkBucket' = DeleteCheck(checkBucket, k)
                    /\ checkMap' = DeleteCheck(checkMap, k)
                    /\ UNCHANGED <<retryBucket, checkKey, pcC>>
    /\ UNCHANGED <<fetched, polyTx, imported, pcW, retryList, txHash>>
    /\ UNCHANGED <<scdcVars, answer>>

\* db.DeleteCheck(k) after the PutRetry (part_001:589), then the next entry
CheckDeleteCheck ==
    /\ pcC = "delcheck"
    /\ checkBucket' = DeleteCheck(checkBucket, checkKey)
    /\ checkMap' = DeleteCheck(checkMap, checkKey)
    /\ pcC' = "item"
    /\ UNCHANGED <<retryBucket, fetched, polyTx, imported, pcW, retryList,
                   txHash, checkKey>>
    /\ UNCHANGED <<scdcVars, rpcFails, answer>>

\* SC executes an import transaction: it succeeds at most once per transfer
PolyExecute ==
    /\ \E t \in DOMAIN polyTx, ok \in BOOLEAN :
          /\ ~polyTx[t].done
          /\ ok => polyTx[t].transfer \notin imported
          /\ polyTx' = [polyTx EXCEPT ![t] =
                           [@ EXCEPT !.done = TRUE, !.State = IF ok THEN 1 ELSE 0]]
          /\ imported' = IF ok THEN imported \cup {polyTx[t].transfer}
                         ELSE imported
    /\ UNCHANGED <<retryBucket, checkBucket, fetched, pcW, retryList, txHash,
                   pcC, checkMap, checkKey>>
    /\ UNCHANGED <<scdcVars, rpcFails, answer>>

(***************************************************************************)
(* HecoManager: the sync of DC's headers to SC and the fetch of DC's lock   *)
(* events (MonitorHecoChain).  A uint64 height is a small integer, and -1  *)
(* stands for 2^64 - 1.                                                    *)
(***************************************************************************)
\* config.HecoConfig.BlockConfig and HeadersPerBatch
BlockConfig == 1
HeadersPerBatch == 2

\* DC's heights with a header, and DC's node height
HecoHeights == 0 .. MaxBlocks
HecoNodeHeight == MaxBlocks + BlockConfig

\* a < b on uint64
Lt64(a, b) ==
    IF (a >= 0) = (b >= 0) THEN a < b ELSE a >= 0
Le64(a, b) == a = b \/ Lt64(a, b)

\* SC's record for a height: none, DC's hash, or another hash
Records == {"none", "same", "other"}

\* the heights of a batch
BatchHeights(batch) == {batch[i] : i \in 1 .. Len(batch)}

\* no pass of the height loop yet
NoCapture == [hdr |-> "none", read |-> FALSE, events |-> <<>>]

\* HecoManager is not running
HecoOff ==
    /\ hecoLatest = 0
    /\ captured = NoCapture
    /\ syncTxHeight = 0
    /\ syncCurr = 0
    /\ hecoCurrentHeight = 0
    /\ header4sync = <<>>
    /\ syncRecord = [h \in HecoHeights |-> "none"]
    /\ pcH = "off"
    /\ retH = "wait"
    /\ rollFrom = <<>>
    /\ rollTo = <<>>
    /\ hecoEvents = [h \in HecoHeights |-> {}]
    /\ hecoPending = <<>>

\* DC chains: without a lock event, and with the lock events ts in block 2
HecoBlock(ts) == [h \in HecoHeights |-> IF h = 2 THEN ts ELSE {}]
HecoBlocks == {HecoBlock({}), HecoBlock({"t1"})}

\* HecoManager after init (part_001:224-241) at one of the heights
\* currents, on one of the SC records, against a DC node at one of the
\* heights and a DC chain of chains
HecoStartWith(heights, currents, records, chains) ==
    /\ hecoLatest \in heights
    /\ captured = NoCapture
    /\ syncTxHeight = 0
    /\ syncCurr = 0
    /\ hecoCurrentHeight \in currents
    /\ header4sync = <<>>
    /\ syncRecord \in records
    /\ pcH = "wait"
    /\ retH = "wait"
    /\ rollFrom = <<>>
    /\ rollTo = <<>>
    /\ hecoEvents \in chains
    /\ hecoPending = <<>>

\* init leaves a currentHeight above 0; SC's record is any
HecoStartOn(heights) ==
    HecoStartWith(heights, HecoHeights \ {0}, [HecoHeights -> Records],
                  HecoBlocks)

\* the DC node is ahead of every header
HecoStart == HecoStartOn({HecoNodeHeight})

\* the guard of the tick (part_001:193): too close to the tip, no work
HecoTooClose(height, cur) == Le64(height - cur, BlockConfig)

\* the loop condition (part_001:198)
HecoInRange(cur, height) == Lt64(cur, height - BlockConfig)

\* a tick of MonitorHecoChain up to the height loop (part_001:187-196)
HecoTick ==
    /\ pcH = "wait"
    /\ \E ok \in BOOLEAN :
          /\ ~ok => rpcFails < MaxRpcFail
          /\ rpcFails' = IF ok THEN rpcFails ELSE rpcFails + 1
          /\ pcH' = IF ok /\ ~HecoTooClose(hecoLatest, hecoCurrentHeight)
                    THEN "loop" ELSE "wait"
    /\ UNCHANGED <<captured, hecoLatest, hecoCurrentHeight, header4sync, syncRecord, retH,
                   rollFrom, rollTo, syncTxHeight, syncCurr>>
    /\ UNCHANGED <<scVars, hecoVars, wireVars, hecoEvents, hecoPending>>

\* handleBlockHeader (part_001:279-293): the header of the height joins the
\* batch unless SC's record is read and is DC's hash
handleBlockHeaderDrop(height, read) ==
    IF read /\ syncRecord[height] = "same" THEN header4sync
    ELSE IF read /\ syncRecord[height] = "other" THEN <<>>
    ELSE Append(header4sync, height)
handleBlockHeader(height, read) ==
    IF read /\ syncRecord[height] = "same"
    THEN header4sync
    ELSE Append(header4sync, height)

\* what the calls of fetchLockDepositEvents of one pass can answer, one
\* after the other
EventAnswers ==
    UNION {[1 .. n -> BOOLEAN] : n \in 1 .. (MaxRpcFail + 1)}

\* a loop that leaves after its first call
EventTriesOnce(answers) == 1
\* the calls of fetchLockDepositEvents that the loop of
\* CheckIfCommitedToPolyAndParseLockDepositEvent makes on these answers
\* before it leaves (part_001:267-274), 0 when it does not leave on them
EventTries(answers) ==
    IF \E i \in 1 .. Len(answers) : answers[i]
    THEN CHOOSE i \in 1 .. Len(answers) :
            answers[i] /\ \A j \in 1 .. (i - 1) : ~answers[j]
    ELSE 0

\* the lock events of DC's block at height h that pass the filters of
\* fetchLockDepositEvents (part_001:317-360)
EventsOn(h) == IF h \in DOMAIN hecoEvents THEN hecoEvents[h] ELSE {}

\* the loop of fetchLockDepositEvents with the events left (part_001:314)
\* and, after the last one, the end of the pass of the height loop with
\* the batch at hand (part_001:205-212)
EventsLoop(left, batch) ==
    /\ hecoPending' = left
    /\ IF left # <<>>
       THEN /\ pcH' = "events"
            /\ UNCHANGED <<hecoCurrentHeight, retH>>
       ELSE /\ hecoCurrentHeight' = hecoCurrentHeight + 1
            /\ pcH' = IF Len(batch) >= HeadersPerBatch THEN "commit" ELSE "loop"
            /\ retH' = "loop"

\* one pass of the height loop up to the events of the height
\* (part_001:197-204, 261-274, 295-313), or the end of the loop and the
\* test that follows it (part_001:214-216)
HecoLoop ==
    /\ pcH = "loop"
    /\ IF ~HecoInRange(hecoCurrentHeight, hecoLatest)
       THEN /\ pcH' = IF header4sync # <<>> THEN "commit" ELSE "wait"
            /\ retH' = "wait"
            /\ captured' = NoCapture
            /\ UNCHANGED <<hecoCurrentHeight, header4sync, rpcFails, hecoPending>>
       ELSE \E out \in {"ok", "noHeader", "noRecord"} :
               LET \* HeaderByNumber fails by itself above DC's node height
                   free == Lt64(hecoLatest, hecoCurrentHeight + 1)
                   cost == IF out = "ok" \/ free THEN 0 ELSE 1
               IN
               /\ free => out = "noHeader"
               /\ rpcFails + cost <= MaxRpcFail
               /\ IF out = "noHeader"
                  THEN /\ pcH' = "wait"
                       /\ captured' = [hdr |-> "failed", read |-> FALSE,
                                        events |-> <<>>]
                       /\ rpcFails' = rpcFails + cost
                       /\ UNCHANGED <<hecoCurrentHeight, header4sync, retH,
                                      hecoPending>>
                  ELSE \E answers \in EventAnswers :
                       LET n == EventTries(answers)
                           failed == Cardinality(
                              {i \in 1 .. Len(answers) : ~answers[i]})
                       IN
                       /\ n = Len(answers)
                       /\ rpcFails + cost + failed <= MaxRpcFail
                       /\ rpcFails' = rpcFails + cost + failed
                       /\ captured' = [hdr |-> "ok", read |-> out = "ok",
                                        events |-> answers]
                       /\ header4sync' =
                            handleBlockHeader(hecoCurrentHeight + 1, out = "ok")
                       /\ \E list \in Listings(EventsOn(hecoCurrentHeight + 1)) :
                             EventsLoop(list, header4sync')
    /\ UNCHANGED <<hecoLatest, syncRecord, rollFrom, rollTo, syncTxHeight, syncCurr>>
    /\ UNCHANGED <<scVars, hecoVars, wireVars, hecoEvents>>

\* one event of the loop of fetchLockDepositEvents up to the read of SC's
\* DONE_TX record (part_001:314-366), whose error is dropped: an event
\* read as done is passed over
HecoEvent ==
    /\ pcH = "events"
    /\ \E read \in BOOLEAN :
          /\ read \/ rpcFails < MaxRpcFail
          /\ rpcFails' = rpcFails + (IF read THEN 0 ELSE 1)
          /\ IF read /\ Head(hecoPending) \in imported
             THEN EventsLoop(Tail(hecoPending), header4sync)
             ELSE /\ pcH' = "put"
                  /\ UNCHANGED <<hecoCurrentHeight, retH, hecoPending>>
    /\ UNCHANGED <<captured, hecoLatest, header4sync, syncRecord, rollFrom, rollTo,
                   syncTxHeight, syncCurr, hecoEvents>>
    /\ UNCHANGED <<scVars, hecoVars, wireVars>>

\* db.PutRetry of the event (part_001:367-384), then the next event
HecoPut ==
    /\ pcH = "put"
    /\ retryBucket' = PutRetry(retryBucket, Head(hecoPending))
    /\ fetched' = fetched \cup {Head(hecoPending)}
    /\ EventsLoop(Tail(hecoPending), header4sync)
    /\ UNCHANGED <<captured, hecoLatest, header4sync, syncRecord, rollFrom, rollTo,
                   syncTxHeight, syncCurr, hecoEvents>>
    /\ UNCHANGED <<answer, checkBucket, polyTx, imported, pcW, retryList, txHash,
                   pcC, checkMap, checkKey>>
    /\ UNCHANGED <<scVars, wireVars, rpcFails>>

\* commitHecoHeaderToPoly up to its return, to the call of
\* rollBackToCommAncestor or to its wait for the transaction
\* (part_001:388-406): SC takes the batch, or rejects it for a missing
\* parent, or for another reason
HecoCommit ==
    /\ pcH = "commit"
    /\ \E out \in {"ok", "parent", "other"} :
          CASE out = "ok" ->
                 /\ syncRecord' = [h \in HecoHeights |->
                                     IF h \in BatchHeights(header4sync)
                                     THEN "same" ELSE syncRecord[h]]
                 /\ pcH' = "confirm"
                 /\ rollFrom' = <<>>
                 /\ rollTo' = <<>>
                 /\ UNCHANGED header4sync
            [] out = "parent" ->
                 /\ pcH' = "rollback"
                 /\ rollFrom' = <<hecoCurrentHeight>>
                 /\ rollTo' = <<>>
                 /\ UNCHANGED <<syncRecord, header4sync>>
            [] out = "other" ->
                 /\ pcH' = "wait"
                 /\ UNCHANGED <<syncRecord, header4sync, rollFrom, rollTo>>
    /\ UNCHANGED <<captured, hecoLatest, hecoCurrentHeight, retH, rpcFails, syncTxHeight,
                   syncCurr>>
    /\ UNCHANGED <<scVars, hecoVars, wireVars, hecoEvents, hecoPending>>

\* what the two calls of a poll can answer: 0 for an error or for a
\* transaction that is in no block yet
PollHeights == 0 .. 1
PollCurrents == 0 .. 2

\* a wait that ends at the first poll
ConfirmedAtOnce(h, curr) == TRUE
\* the end of the wait (part_001:412)
Confirmed(h, curr) == Lt32(0, h) /\ Lt32(h, curr)

\* one poll of commitHecoHeaderToPoly and, when it ends the wait, the
\* reset of the batch and the return (part_001:408-420)
HecoConfirm ==
    /\ pcH = "confirm"
    /\ \E h \in PollHeights, curr \in PollCurrents :
          /\ syncTxHeight' = h
          /\ syncCurr' = curr
          /\ IF Confirmed(h, curr)
             THEN /\ header4sync' = <<>>
                  /\ pcH' = retH
             ELSE UNCHANGED <<header4sync, pcH>>
    /\ UNCHANGED <<captured, hecoLatest, hecoCurrentHeight, syncRecord, retH, rollFrom,
                   rollTo, rpcFails>>
    /\ UNCHANGED <<scVars, hecoVars, wireVars, hecoEvents, hecoPending>>

\* the walk of rollBackToCommAncestor goes one height down
\* (part_001:427-429, 436-439): SC's record is not read, is empty, or is
\* not DC's hash
StepDown(record, read) == ~read \/ record # "same"

\* one pass of the loop of rollBackToCommAncestor (part_001:424-440) and,
\* at the common ancestor, its return (part_001:441, 401).  A failed
\* HeaderByNumber adds one to currentHeight, the nil header's hash is not
\* SC's record, and the loop takes the one away again.  Below height 0 the
\* walk goes through 2^64 heights without a record and is not followed.
RollBackStep ==
    /\ pcH = "rollback"
    /\ hecoCurrentHeight >= 0
    /\ \E out \in {"read", "noRecord", "noHeader"} :
          /\ out # "read" => rpcFails < MaxRpcFail
          /\ out = "noHeader" => syncRecord[hecoCurrentHeight] # "none"
          /\ rpcFails' = IF out = "read" THEN rpcFails ELSE rpcFails + 1
          /\ IF out = "noHeader"
             THEN /\ hecoCurrentHeight' = (hecoCurrentHeight + 1) - 1
                  /\ UNCHANGED <<header4sync, pcH, rollTo>>
             ELSE IF StepDown(syncRecord[hecoCurrentHeight], out = "read")
             THEN /\ hecoCurrentHeight' = hecoCurrentHeight - 1
                  /\ UNCHANGED <<header4sync, pcH, rollTo>>
             ELSE /\ header4sync' = <<>>
                  /\ pcH' = retH
                  /\ rollTo' = <<hecoCurrentHeight, header4sync'>>
                  /\ UNCHANGED hecoCurrentHeight
    /\ UNCHANGED <<captured, hecoLatest, syncRecord, retH, rollFrom, syncTxHeight, syncCurr>>
    /\ UNCHANGED <<scVars, hecoVars, wireVars, hecoEvents, hecoPending>>

\* the goroutine of MonitorHecoChain (part_001:182-222)
MonitorHecoChain ==
    \/ HecoTick
    \/ HecoLoop
    \/ HecoEvent
    \/ HecoPut
    \/ HecoCommit
    \/ HecoConfirm
    \/ RollBackStep

(***************************************************************************)
(* CrossTransfer and its binary form (part_001:60-103), and the trip of    *)
(* one value through Serialization and Deserialization.                    *)
(***************************************************************************)
CrossTransfer(index, id, val, chain, h) ==
    [txIndex |-> index, txId |-> id, value |-> val, toChain |-> chain,
     height |-> h]

RECURSIVE LittleEndian(_, _)
\* the n bytes of sink.WriteUint32 / WriteUint64 for v
LittleEndian(v, n) ==
    IF n = 0 THEN <<>> ELSE <<v % 256>> \o LittleEndian(v \div 256, n - 1)

RECURSIVE FromLittleEndian(_)
\* source.NextUint32 / NextUint64 on the bytes
FromLittleEndian(bytes) ==
    IF bytes = <<>> THEN 0
    ELSE Head(bytes) + 256 * FromLittleEndian(Tail(bytes))

\* CrossTransfer.Serialization (part_001:68-74)
SerializationCT(ct) ==
    <<ct.txIndex, ct.txId, ct.value,
      LittleEndian(ct.toChain, 4), LittleEndian(ct.height, 8)>>

\* CrossTransfer.Deserialization (part_001:76-103)
DeserializationCT(bytes) ==
    CrossTransfer(bytes[1], bytes[2], bytes[3],
                  FromLittleEndian(bytes[4]), FromLittleEndian(bytes[5]))

\* the values written: every pair of proof and anchor, every pay state and
\* fee; every CrossTransfer over two values per field
BridgeTransactions ==
    {BridgeTransaction(hp, anchor, pay, f) :
        hp \in {"", "proof"}, anchor \in {NoAnchor, "anchor"},
        pay \in {FEE_NOCHECK, FEE_HASPAY, FEE_NOTPAY}, f \in Amounts \cup {""}}

CrossTransfers ==
    {CrossTransfer(index, id, val, chain, h) :
        index \in {"", "0a"}, id \in {<<>>, <<171, 0>>},
        val \in {<<>>, <<255>>}, chain \in {0, 65543}, h \in {0, 16777217}}

\* no value is on its way
WireOff ==
    /\ rtInput = <<>>
    /\ rtBytes = <<>>
    /\ rtOutput = <<>>
    /\ pcT = "off"

WireStart ==
    /\ rtInput \in
          {<<"BridgeTransaction", b>> : b \in BridgeTransactions}
          \cup {<<"CrossTransfer", c>> : c \in CrossTransfers}
    /\ rtBytes = <<>>
    /\ rtOutput = <<>>
    /\ pcT = "in"

WireSerialize ==
    /\ pcT = "in"
    /\ rtBytes' = IF rtInput[1] = "BridgeTransaction"
                  THEN Serialization(rtInput[2])
                  ELSE SerializationCT(rtInput[2])
    /\ pcT' = "wire"
    /\ UNCHANGED <<rtInput, rtOutput>>
    /\ UNCHANGED <<scVars, hecoVars, forkVars, rpcFails>>

WireDeserialize ==
    /\ pcT = "wire"
    /\ rtOutput' = IF rtInput[1] = "BridgeTransaction"
                   THEN <<rtInput[1], Deserialization(rtBytes)>>
                   ELSE <<rtInput[1], DeserializationCT(rtBytes)>>
    /\ pcT' = "out"
    /\ UNCHANGED <<rtInput, rtBytes>>
    /\ UNCHANGED <<scVars, hecoVars, forkVars, rpcFails>>

(***************************************************************************)
(* PolyManager.IsEpoch (part_000:286-324) on the header's fields and on    *)
(* what DC answers for its keepers.  A public key is a number, its         *)
(* uncompressed form two bytes, its address one byte.                      *)
(***************************************************************************)
PublicKeys == 1 .. MaxCount + 1

ADDRESS_EMPTY == "empty"

RECURSIVE SortPublicKeys(_)
\* keypair.SortPublicKeys: ascending
SortPublicKeys(keys) ==
    IF keys = <<>> THEN <<>>
    ELSE LET least == CHOOSE i \in 1 .. Len(keys) :
                         \A j \in 1 .. Len(keys) : keys[i] <= keys[j]
         IN <<keys[least]>>
            \o SortPublicKeys([i \in 1 .. (Len(keys) - 1) |->
                                  IF i < least THEN keys[i] ELSE keys[i + 1]])

\* tools.GetNoCompresskey(key)
GetNoCompresskey(key) == <<100 + key, 200 + key>>

\* crypto.Keccak256(tools.GetEthNoCompressKey(key)[1:])[12:], written with
\* sink.WriteVarBytes: the length, then the bytes
KeeperAddress(key) == <<1, 50 + key>>

RECURSIVE Flatten(_)
Flatten(parts) ==
    IF parts = <<>> THEN <<>> ELSE Head(parts) \o Flatten(Tail(parts))

\* the sink of part_000:313-319 for the sorted keys
KeepersWire(bookkeepers) ==
    LittleEndian(Len(bookkeepers), 8)
    \o Flatten([i \in 1 .. Len(bookkeepers) |-> KeeperAddress(bookkeepers[i])])

\* publickeys of part_000:312-317
PublicKeyList(bookkeepers) ==
    Flatten([i \in 1 .. Len(bookkeepers) |-> GetNoCompresskey(bookkeepers[i])])

\* IsEpoch that compares the keys in the header's order
IsEpochUnsorted(hdr, dc) ==
    IF hdr.NextBookkeeper = ADDRESS_EMPTY \/ ~hdr.NewChainConfig.present
    THEN <<FALSE, <<>>, FALSE>>
    ELSE IF dc.err THEN <<FALSE, <<>>, TRUE>>
    ELSE IF dc.rawKeepers = KeepersWire(hdr.NewChainConfig.Peers)
         THEN <<FALSE, <<>>, FALSE>>
         ELSE <<TRUE, PublicKeyList(hdr.NewChainConfig.Peers), FALSE>>
\* IsEpoch: <<isEpoch, publickeys, err # nil>>
IsEpochHdr(hdr, dc) ==
    IF hdr.NextBookkeeper = ADDRESS_EMPTY \/ ~hdr.NewChainConfig.present
    THEN <<FALSE, <<>>, FALSE>>
    ELSE IF dc.err THEN <<FALSE, <<>>, TRUE>>
    ELSE LET bookkeepers == SortPublicKeys(hdr.NewChainConfig.Peers) IN
         IF dc.rawKeepers = KeepersWire(bookkeepers)
         THEN <<FALSE, <<>>, FALSE>>
         ELSE <<TRUE, PublicKeyList(bookkeepers), FALSE>>

\* the peer lists of a header: every order of every set of keys
PeerLists ==
    UNION {{l \in [1 .. n -> PublicKeys] :
               \A i, j \in 1 .. n : i # j => l[i] # l[j]} :
           n \in 1 .. Cardinality(PublicKeys)}

EpochHeaders ==
    {[NextBookkeeper |-> nb, NewChainConfig |-> cfg] :
        nb \in {ADDRESS_EMPTY, "keepers"},
        cfg \in {[present |-> FALSE, Peers |-> <<>>]}
                 \cup {[present |-> TRUE, Peers |-> l] : l \in PeerLists}}

\* what eccd.GetCurEpochConPubKeyBytes answers: an error, or the wire form
\* of DC's keepers
KeeperAnswers ==
    {[err |-> TRUE, rawKeepers |-> <<>>]}
    \cup {[err |-> FALSE, rawKeepers |-> KeepersWire(SortPublicKeys(l))] :
             l \in PeerLists}

EpochStart ==
    /\ rtInput \in {<<"IsEpoch", hdr, dc>> : hdr \in EpochHeaders, dc \in KeeperAnswers}
    /\ rtBytes = <<>>
    /\ rtOutput = <<>>
    /\ pcT = "in"

EpochCall ==
    /\ pcT = "in"
    /\ rtInput[1] = "IsEpoch"
    /\ rtOutput' = IsEpochHdr(rtInput[2], rtInput[3])
    /\ pcT' = "out"
    /\ UNCHANGED <<rtInput, rtBytes>>
    /\ UNCHANGED <<scVars, hecoVars, forkVars, rpcFails>>

(***************************************************************************)
(* The proof height of a retry item: RegularlyTryCommitHecoLockProofToPoly *)
(* (part_001:444-465) and handleCachedLockDepositEvents (part_001:486-499) *)
(* for one item, on heights below 2^31.                                    *)
(***************************************************************************)
\* config.HecoConfig.CommitProofBlockConfig
CommitProofBlockConfig == 1

\* the heights of a tick: DC's node height, the DC height SC has synced,
\* the height of the item
ProofHeightsIn == 0 .. (MaxBlocks + 2)

\* uint32(height) of part_001:499
Uint32(height) == (height % 65536) + 65536 * ((height \div 65536) % 65536)

\* handleCachedLockDepositEvents for one item: the item is passed over, or
\* its proof is asked for at a height and committed with a height
handleCachedItem(refHeight, ctHeight) ==
    IF Le64(refHeight, ctHeight + CommitProofBlockConfig)
    THEN [step |-> "continue", getProof |-> 0, commitProof |-> 0]
    ELSE LET height == refHeight - CommitProofBlockConfig
         IN [step |-> "submit", getProof |-> height,
             commitProof |-> Uint32(height)]

\* a tick that hands DC's node height to handleCachedLockDepositEvents
RegularlyTryCommitLatest(height, snycheight, ctHeight) ==
    IF Lt64(height, snycheight)
    THEN [step |-> "retry", getProof |-> 0, commitProof |-> 0]
    ELSE handleCachedItem(height, ctHeight)
\* the tick of RegularlyTryCommitHecoLockProofToPoly for one item
RegularlyTryCommit(height, snycheight, ctHeight) ==
    IF Lt64(height, snycheight)
    THEN [step |-> "retry", getProof |-> 0, commitProof |-> 0]
    ELSE handleCachedItem(snycheight, ctHeight)

ProofStart ==
    /\ rtInput \in {<<"ProofHeight", height, snycheight, ctHeight>> :
                       height \in ProofHeightsIn, snycheight \in ProofHeightsIn,
                       ctHeight \in ProofHeightsIn}
    /\ rtBytes = <<>>
    /\ rtOutput = <<>>
    /\ pcT = "in"

ProofCall ==
    /\ pcT = "in"
    /\ rtInput[1] = "ProofHeight"
    /\ rtOutput' = RegularlyTryCommit(rtInput[2], rtInput[3], rtInput[4])
    /\ pcT' = "out"
    /\ UNCHANGED <<rtInput, rtBytes>>
    /\ UNCHANGED <<scVars, hecoVars, forkVars, rpcFails>>

(***************************************************************************)
(* The fee check of handleLockDepositEvents (part_000:498-537) on a map of *)
(* items and on the list of entries the fee service returned.              *)
(***************************************************************************)
\* the hashes of the items of the map
FeeKeys == {"k1", "k2"}

\* the maps of a tick: every item unchecked, or paid with a fee
FeeMaps ==
    [FeeKeys -> {BridgeTransaction("", NoAnchor, FEE_NOCHECK, ""),
                 BridgeTransaction("", NoAnchor, FEE_HASPAY, "1")}]

\* the lists of a call: up to two entries over the hashes of the map
FeeLists == FeeListsOver(FeeKeys)

\* the hashes asked for (part_000:498-506) and the map after the loop
\* (507-537): the call is made when a hash is asked for, and the list it
\* returns is applied whatever the error returned with it
CheckFees(bts, callOk, checkFees) ==
    LET noCheckFees == {k \in DOMAIN bts : bts[k].hasPay = FEE_NOCHECK}
    IN [asked |-> noCheckFees,
        items |-> IF noCheckFees # {}
                  THEN ApplyCheckFees(bts, checkFees) ELSE bts]

FeeStart ==
    /\ rtInput \in {<<"CheckFee", bts, callOk, checkFees>> :
                       bts \in FeeMaps, callOk \in BOOLEAN, checkFees \in FeeLists}
    /\ rtBytes = <<>>
    /\ rtOutput = <<>>
    /\ pcT = "in"

FeeCall ==
    /\ pcT = "in"
    /\ rtInput[1] = "CheckFee"
    /\ rtOutput' = CheckFees(rtInput[2], rtInput[3], rtInput[4])
    /\ pcT' = "out"
    /\ UNCHANGED <<rtInput, rtBytes>>
    /\ UNCHANGED <<scVars, hecoVars, forkVars, rpcFails>>

(***************************************************************************)
(* The process (main.go:93-173): startServer starts the five goroutines of *)
(* the two managers and waits in waitToExit for a signal.                  *)
(***************************************************************************)
\* signal.Notify(sc, ...) of main.go:143
Signals == {"SIGINT", "SIGTERM", "SIGHUP"}

Managers == {"PolyManager", "HecoManager"}

\* the goroutines of initPolyServer and initHecoServer, and the manager
\* whose exitChan each of them reads
Tasks == {"MonitorPolyChain", "MonitorDeposit", "MonitorHecoChain",
          "RegularlyTryCommitHecoLockProofToPoly", "CheckDeposit"}
TaskManager(t) ==
    IF t \in {"MonitorPolyChain", "MonitorDeposit"}
    THEN "PolyManager" ELSE "HecoManager"

\* the goroutine of waitToExit (main.go:144-150): the first signal closes
\* the channel exit, which is local to waitToExit
SignalHandler ==
    /\ process = "running"
    /\ signal = "none"
    /\ \E sig \in Signals : signal' = sig
    /\ exit' = TRUE
    /\ UNCHANGED <<task, exitChan, process>>
    /\ UNCHANGED <<coreVars, hecoVars, forkVars, wireVars, rpcFails>>

\* <-exit of waitToExit (main.go:151), the return of startServer and of
\* main: the process ends with its goroutines where they are
waitToExit ==
    /\ process = "running"
    /\ exit
    /\ process' = "exited"
    /\ UNCHANGED <<task, signal, exit, exitChan>>
    /\ UNCHANGED <<coreVars, hecoVars, forkVars, wireVars, rpcFails>>

\* PolyManager.Stop (part_000:582-586), which nothing in the repository
\* calls: the call reaches its send on the unbuffered exitChan and waits
\* there for a receiver; on a closed exitChan the send panics
Stop ==
    /\ process = "running"
    /\ exitChan["PolyManager"] \in {"open", "closed"}
    /\ IF exitChan["PolyManager"] = "open"
       THEN /\ exitChan' = [exitChan EXCEPT !["PolyManager"] = "send"]
            /\ process' = process
       ELSE /\ process' = "exited"
            /\ exitChan' = exitChan
    /\ UNCHANGED <<task, signal, exit>>
    /\ UNCHANGED <<coreVars, hecoVars, forkVars, wireVars, rpcFails>>

\* close(this.exitChan) of Stop (part_000:584), once its send was taken
StopClose ==
    /\ process = "running"
    /\ exitChan["PolyManager"] = "close"
    /\ exitChan' = [exitChan EXCEPT !["PolyManager"] = "closed"]
    /\ UNCHANGED <<task, signal, exit, process>>
    /\ UNCHANGED <<coreVars, hecoVars, forkVars, wireVars, rpcFails>>

\* the select of a goroutine (part_000:251-252, 280; 471-474;
\* part_001:186-187, 218; 447-448, 461; 559-560, 563): the ticker starts a tick, a
\* value sent on exitChan or a closed exitChan makes it return
TaskSelect(t) ==
    /\ process = "running"
    /\ task[t] = "wait"
    /\ \E c \in {"ticker"} \cup
                (IF exitChan[TaskManager(t)] \in {"send", "closed"}
                 THEN {"exitChan"} ELSE {}) :
          /\ task' = [task EXCEPT ![t] = IF c = "ticker" THEN "tick"
                                         ELSE "returned"]
          /\ exitChan' = IF c = "exitChan" /\ exitChan[TaskManager(t)] = "send"
                         THEN [exitChan EXCEPT ![TaskManager(t)] = "close"]
                         ELSE exitChan
    /\ UNCHANGED <<signal, exit, process>>
    /\ UNCHANGED <<coreVars, hecoVars, forkVars, wireVars, rpcFails>>

\* the end of a tick: back to the select
TaskTickEnd(t) ==
    /\ process = "running"
    /\ task[t] = "tick"
    /\ task' = [task EXCEPT ![t] = "wait"]
    /\ UNCHANGED <<signal, exit, exitChan, process>>
    /\ UNCHANGED <<coreVars, hecoVars, forkVars, wireVars, rpcFails>>

\* the process after startServer: every goroutine at its select, the
\* channels open (part_000:204, part_001:162, main.go:141)
ProcessStart ==
    /\ task = [t \in Tasks |-> "wait"]
    /\ signal = "none"
    /\ exit = FALSE
    /\ exitChan = [m \in Managers |-> "open"]
    /\ process = "running"

(***************************************************************************)
(* Initial states: a start of the relayer on a store a previous run may    *)
(* have left, against an SC chain of base + 2 blocks.                      *)
(***************************************************************************)
Bases == {0, 998}

\* the makeProof events of the blocks base and base + 1
Scenarios(b) ==
    << [h \in {b, b + 1} |-> {}],
       [h \in {b, b + 1} |-> IF h = b THEN {"k1", "k2"} ELSE {}],
       [h \in {b, b + 1} |-> IF h = b THEN {"k1", "kx"} ELSE {"k2"}],
       [h \in {b, b + 1} |-> IF h = b THEN {"k1"} ELSE {}] >>

StartOn(bases, blocks, epochs, flags, stores, scenarios, saved, starts, tips) ==
    \E b \in bases :
       /\ scLatest \in {b + t : t \in tips}
       /\ scTop = scLatest + blocks
       /\ scEvents \in {Scenarios(b)[i] : i \in scenarios}
       /\ scEpochAt \in {-1} \cup {b + e : e \in epochs}
       /\ epochStart \in {0} \cup {b + e : e \in starts}
       /\ keepers = 1
       /\ polyHeight \in {b + d : d \in saved}
       /\ startFlag \in {0} \cup {b + f : f \in flags}
       /\ currentHeight = startFlag
       /\ pcM = "init"
       /\ latestheight = 0
       /\ blockHandleResult = FALSE
       /\ tickStartPoly = polyHeight
       /\ failedAt = {}
       /\ handledOk = 0
       /\ savedOk = "none"
       /\ rpcFails = 0
       /\ btStore \in stores
       /\ nonceNext = [s \in Senders |-> 0]
       /\ nonceReturned = [s \in Senders |-> {}]
       /\ broadcast = {}
       /\ pcR = "idle"
       /\ bridgeTransactions = <<>>
       /\ maxFeeOfTxHash = NoKey
       /\ sendTo = <<>>
       /\ todo = {}
       /\ cmap = [s \in Senders |-> {}]
       /\ chans = [c \in SR |-> <<>>]
       /\ worker = [c \in SR |-> IdleWorker]
       /\ dcPending = {}
       /\ handed = [k \in Keys |-> 0]
       /\ accepted = [k \in Keys |-> 0]
       /\ tickCommits = 0
       /\ tickRemoved = 0
       /\ submitRemoved = {}
       /\ notPaid = {}
       /\ everCommitted = {}
       /\ stored = [k \in Keys |-> IF k \in DOMAIN btStore THEN 1 ELSE 0]
       /\ queued = [c \in SR |-> <<>>]
       /\ gasLimit = 0
       /\ txExist = FALSE
       /\ headerCall = "early"
       /\ isEpochCurr = FALSE
       /\ served = [c \in SR |-> <<>>]
       /\ ended = [c \in SR |-> 0]
       /\ answer = "none"
       /\ checkBucket = <<>>
       /\ polyTx = <<>>
       /\ pcW = "idle"
       /\ retryList = <<>>
       /\ txHash = 0
       /\ pcC = "idle"
       /\ checkMap = <<>>
       /\ checkKey = 0
       /\ pendingEvents = <<>>
       /\ cnt = 0
       /\ handling = NoLocals
       /\ headerTx = <<>>
       /\ handleFails = 0
       /\ ProcessStart

\* the store holds the height of the base, DC's epoch starts at 0 or
\* there, SC has base + 2 blocks
MonitorStart(bases, blocks, epochs, flags, stores, scenarios) ==
    StartOn(bases, blocks, epochs, flags, stores, scenarios, {0}, {0}, {2})

\* neither chain has seen a message of this relayer's queues
FreshChains ==
    /\ executed = {}
    /\ retryBucket = {}
    /\ fetched = {}
    /\ imported = {}

\* DC's epoch starts at 0, at the base or three blocks after it
InitMonitor ==
    /\ StartOn(Bases, MaxBlocks, {2}, {1}, {<<>>}, {1, 2, 3}, {0}, {0, 3}, {2})
    /\ HecoOff
    /\ FreshChains
    /\ WireOff

NextMonitor ==
    \/ MonitorInit
    \/ MonitorTick
    \/ MonitorLoop
    \/ MonitorHeader
    \/ MonitorIsEpoch
    \/ MonitorAnchor
    \/ MonitorProof
    \/ MonitorFetch
    \/ MonitorEvent
    \/ MonitorSelectSender
    \/ commitHeader
    \/ commitHeaderSend
    \/ commitHeaderConfirm
    \/ MonitorSave
    \/ SCAdvance
    \/ DCResolve

SpecMonitor == InitMonitor /\ [][NextMonitor]_vars

\* a store that holds what the monitor persisted in an earlier run
LeftOver(ks) ==
    PutAll(<<>>, ks, [k \in ks |->
              Serialization(BridgeTransaction("", NoAnchor, FEE_NOCHECK, ""))])

\* a fresh store under two blocks with events; or a store with an item of
\* an earlier run, under an epoch header, or under the block of the item,
\* which that run handled without saving its height
Init ==
    /\ \/ StartOn({0}, 0, {}, {}, {<<>>}, {3}, {0}, {0}, {3})
       \/ MonitorStart({0}, MaxGrowth, {1}, {}, {LeftOver({"k1"})}, {1})
       \/ MonitorStart({0}, MaxGrowth, {}, {}, {LeftOver({"k1"})}, {4})
    /\ HecoOff
    /\ FreshChains
    /\ WireOff

\* the keys of the items left in the store
Stored == {"k1", "k2"}

InitRelay ==
    /\ MonitorStart({0}, 0, {}, {}, {LeftOver(ks) : ks \in SUBSET Stored}, {1})
    /\ HecoOff
    /\ FreshChains
    /\ WireOff

NextRelay ==
    \/ RelayTick
    \/ RelayCheckFee
    \/ RelayDrop
    \/ RelaySelectSender
    \/ RelayCommit
    \/ RelayEstimate
    \/ RelaySend
    \/ RelayDelete
    \/ RelayPersist
    \/ \E c \in SR : WorkerRecv(c)
    \/ \E c \in SR : WorkerNonce(c)
    \/ \E c \in SR : WorkerSign(c)
    \/ \E c \in SR : WorkerSend(c)
    \/ \E c \in SR : WorkerConfirm(c)
    \/ DCResolve

SpecRelay == InitRelay /\ [][NextRelay]_vars

\* one tick up to its selection, on a store in which an earlier tick left
\* three items with a paid fee
PaidStore(fees) ==
    PutAll(<<>>, Keys, [k \in Keys |->
              Serialization(BridgeTransaction("", NoAnchor, FEE_HASPAY, fees[k]))])

InitSelect ==
    /\ MonitorStart({0}, 0, {}, {}, {PaidStore(fees) : fees \in [Keys -> Amounts]}, {1})
    /\ HecoOff
    /\ FreshChains
    /\ WireOff

NextSelect == RelayTick

SpecSelect == InitSelect /\ [][NextSelect]_vars

\* SC has DC's header of height 0 and no other
GenesisSynced == [h \in HecoHeights |-> IF h = 0 THEN "same" ELSE "none"]

\* the DC -> SC direction alone: MonitorHecoChain from height 1 on a DC
\* chain with lock events, the retry tick, the check tick and SC
InitDC ==
    /\ MonitorStart({0}, 0, {}, {}, {<<>>}, {1})
    /\ HecoStartWith({HecoNodeHeight - 1}, {1}, {GenesisSynced},
                     {HecoBlock({"t1"})})
    /\ FreshChains
    /\ WireOff

NextDC ==
    \/ HecoTick
    \/ HecoLoop
    \/ HecoEvent
    \/ HecoPut
    \/ HecoCommit
    \/ HecoConfirm
    \/ RollBackStep
    \/ RetryTick
    \/ RetryItem
    \/ RetryPutCheck
    \/ RetryDeleteRetry
    \/ CheckTick
    \/ CheckItem
    \/ CheckDeleteCheck
    \/ PolyExecute

SpecDC == InitDC /\ [][NextDC]_vars
\* HecoManager's header sync alone, started at any height on any SC record
InitFork ==
    /\ MonitorStart({0}, 0, {}, {}, {<<>>}, {1})
    /\ HecoStart
    /\ FreshChains
    /\ WireOff

NextFork ==
    \/ HecoTick
    \/ HecoLoop
    \/ HecoEvent
    \/ HecoPut
    \/ HecoCommit
    \/ HecoConfirm
    \/ RollBackStep

SpecFork == InitFork /\ [][NextFork]_vars

\* the goroutine of MonitorHecoChain is scheduled whenever it can take a
\* step, and every call it makes returns
FairSpecFork ==
    /\ SpecFork
    /\ WF_vars(MonitorHecoChain)

\* the same against a DC node at any height, below currentHeight too
InitFinal ==
    /\ MonitorStart({0}, 0, {}, {}, {<<>>}, {1})
    /\ HecoStartOn(0 .. HecoNodeHeight)
    /\ FreshChains
    /\ WireOff

SpecFinal == InitFinal /\ [][NextFork]_vars

\* the two queues after a run in which the target chains may have taken
\* their messages from another relayer: the retry tick and the relay tick
InitDone ==
    /\ MonitorStart({0}, 0, {}, {}, {LeftOver({"k1"})}, {1})
    /\ HecoOff
    /\ WireOff
    /\ executed \in SUBSET {"k1"}
    /\ fetched = Transfers
    /\ retryBucket \in SUBSET Transfers
    /\ imported \in SUBSET Transfers

NextDone ==
    \/ RetryTick
    \/ RetryItem
    \/ RetryPutCheck
    \/ RetryDeleteRetry
    \/ PolyExecute
    \/ RelayTick
    \/ RelayCheckFee
    \/ RelayDrop
    \/ RelaySelectSender
    \/ RelayCommit
    \/ RelayEstimate
    \/ RelaySend
    \/ RelayDelete
    \/ RelayPersist
    \/ \E c \in SR : WorkerRecv(c)
    \/ \E c \in SR : WorkerNonce(c)
    \/ \E c \in SR : WorkerSign(c)
    \/ \E c \in SR : WorkerSend(c)
    \/ \E c \in SR : WorkerConfirm(c)
    \/ DCResolve

SpecDone == InitDone /\ [][NextDone]_vars
\* one value written and read back
InitWire ==
    /\ MonitorStart({0}, 0, {}, {}, {<<>>}, {1})
    /\ HecoOff
    /\ FreshChains
    /\ WireStart

NextWire ==
    \/ WireSerialize
    \/ WireDeserialize

SpecWire == InitWire /\ [][NextWire]_vars

\* PolyManager.init on every flag, persisted height and epoch start height
InitStart ==
    /\ StartOn({0}, 0, {}, 1 .. MaxBlocks, {<<>>}, {1}, 0 .. MaxBlocks,
               0 .. MaxBlocks, {2})
    /\ HecoOff
    /\ FreshChains
    /\ WireOff

NextStart == MonitorInit

SpecStart == InitStart /\ [][NextStart]_vars

\* SCMonitor from any flag on an SC chain of any height from 0
InitTip ==
    /\ StartOn({0}, 0, {}, 1 .. MaxBlocks, {<<>>}, {2}, {0}, {0}, 0 .. MaxBlocks)
    /\ HecoOff
    /\ FreshChains
    /\ WireOff

NextTip ==
    \/ MonitorInit
    \/ MonitorTick
    \/ MonitorLoop
    \/ MonitorHeader
    \/ MonitorFetch
    \/ MonitorEvent
    \/ MonitorSave

SpecTip == InitTip /\ [][NextTip]_vars

\* one retry item in one tick of RegularlyTryCommitHecoLockProofToPoly
InitProof ==
    /\ MonitorStart({0}, 0, {}, {}, {<<>>}, {1})
    /\ HecoOff
    /\ FreshChains
    /\ ProofStart

NextProof == ProofCall

SpecProof == InitProof /\ [][NextProof]_vars

\* the fee check of one tick
InitFee ==
    /\ MonitorStart({0}, 0, {}, {}, {<<>>}, {1})
    /\ HecoOff
    /\ FreshChains
    /\ FeeStart

NextFee == FeeCall

SpecFee == InitFee /\ [][NextFee]_vars

\* one call of selectSender
InitSender ==
    /\ MonitorStart({0}, 0, {}, {}, {<<>>}, {1})
    /\ HecoOff
    /\ FreshChains
    /\ SenderStart

NextSender == SenderCall

SpecSender == InitSender /\ [][NextSender]_vars

\* the relay tick and the route consumers on a store of two paid items and
\* one whose fee is not checked yet, with calls that may fail again and
\* again
InitTick ==
    /\ MonitorStart({0}, 0, {}, {},
                    {PutBridgeTransactions(
                        PaidStore([k \in Keys |-> "1"]), "k3",
                        Serialization(BridgeTransaction("", NoAnchor,
                                                        FEE_NOCHECK, "")))},
                    {1})
    /\ HecoOff
    /\ FreshChains
    /\ WireOff

\* the nodes are out of reach again: the calls of the relayer can fail anew
FailsAgain ==
    /\ rpcFails > 0
    /\ rpcFails' = 0
    /\ UNCHANGED <<epochVars, commitVars, sideVars, hecoVars, fifoVars, monVars, envVars, btStore, nonceVars,
                   relayVars, routeVars, dcVars, obsVars>>

NextTick ==
    \/ RelayTick
    \/ RelayCheckFee
    \/ RelayDrop
    \/ RelaySelectSender
    \/ RelayCommit
    \/ RelayEstimate
    \/ RelaySend
    \/ RelayDelete
    \/ RelayPersist
    \/ \E c \in SR : WorkerRecv(c)
    \/ \E c \in SR : WorkerNonce(c)
    \/ \E c \in SR : WorkerSign(c)
    \/ \E c \in SR : WorkerSend(c)
    \/ \E c \in SR : WorkerConfirm(c)
    \/ FailsAgain

SpecTick == InitTick /\ [][NextTick]_vars

\* the worker and the consumers are scheduled whenever they can take a
\* step, and every call they make returns
FairSpecTick ==
    /\ SpecTick
    /\ WF_vars(MonitorDeposit)
    /\ \A c \in SR : WF_vars(Consumer(c))

\* the goroutines and the signal handler
InitExit ==
    /\ MonitorStart({0}, 0, {}, {}, {<<>>}, {1})
    /\ HecoOff
    /\ FreshChains
    /\ WireOff

NextExit ==
    \/ SignalHandler
    \/ waitToExit
    \/ Stop
    \/ StopClose
    \/ \E t \in Tasks : TaskSelect(t)
    \/ \E t \in Tasks : TaskTickEnd(t)

SpecExit == InitExit /\ [][NextExit]_vars

\* the scheduler runs every goroutine that can run; Stop is called or not
FairSpecExit ==
    /\ SpecExit
    /\ WF_vars(waitToExit)
    /\ WF_vars(StopClose)
    /\ \A t \in Tasks : WF_vars(TaskSelect(t)) /\ WF_vars(TaskTickEnd(t))

\* one call of IsEpoch
InitEpoch ==
    /\ MonitorStart({0}, 0, {}, {}, {<<>>}, {1})
    /\ HecoOff
    /\ FreshChains
    /\ EpochStart

NextEpoch == EpochCall

SpecEpoch == InitEpoch /\ [][NextEpoch]_vars

Next ==
    \/ MonitorInit
    \/ MonitorTick
    \/ MonitorLoop
    \/ MonitorHeader
    \/ MonitorIsEpoch
    \/ MonitorAnchor
    \/ MonitorProof
    \/ MonitorFetch
    \/ MonitorEvent
    \/ MonitorSelectSender
    \/ commitHeader
    \/ commitHeaderSend
    \/ commitHeaderConfirm
    \/ MonitorSave
    \/ SCAdvance
    \/ RelayTick
    \/ RelayCheckFee
    \/ RelayDrop
    \/ RelaySelectSender
    \/ RelayCommit
    \/ RelayEstimate
    \/ RelaySend
    \/ RelayDelete
    \/ RelayPersist
    \/ \E c \in SR : WorkerRecv(c)
    \/ \E c \in SR : WorkerNonce(c)
    \/ \E c \in SR : WorkerSign(c)
    \/ \E c \in SR : WorkerSend(c)
    \/ \E c \in SR : WorkerConfirm(c)
    \/ DCResolve

Spec == Init /\ [][Next]_vars

\* fair scheduling of the goroutines: the monitor, the relay ticks, the
\* route consumers, and the two chains
Fairness ==
    /\ WF_vars(MonitorPolyChain)
    /\ WF_vars(SCAdvance)
    /\ WF_vars(MonitorDeposit)
    /\ \A c \in SR : WF_vars(Consumer(c))
    /\ WF_vars(DCResolve)

FairSpec == Spec /\ Fairness


(***************************************************************************)
(* Properties of the SC -> DC relay side (SpecRelay, SpecSelect).          *)
(***************************************************************************)
Item(k) == bridgeTransactions[k]

\* C2, as stated: an item that a DC submission removed from the store has
\* been executed on DC; it is never absent while its DC transaction is
\* queued, unsent, pending or failed.
RemovedOnlyAfterConfirm ==
    \A k \in submitRemoved : k \in DOMAIN btStore \/ k \in executed

\* the three items of the tick carry three different parseable fees
ThreeFees ==
    /\ DOMAIN bridgeTransactions = Keys
    /\ \A k \in Keys : FeeOk(Item(k).fee)
    /\ \A j, k \in Keys : j # k => Item(j).fee # Item(k).fee

\* C4, as stated: when the loaded items carry parseable fees f1 < f2 < f3,
\* the item the tick submits is the one with fee f3, whatever the order of
\* the map iteration.
HighestFeeSelected ==
    (pcR = "balance" /\ ThreeFees)
       => \A k \in Keys : FeeValue(Item(k).fee) <= FeeValue(Item(maxFeeOfTxHash).fee)

\* C5, as stated: for every key at most one verifyHeaderAndExecuteTx
\* transaction is accepted by DC for broadcast, and an item handed to a
\* DCSender is never handed over again in a later tick.
AtMostOnceSubmission ==
    \A k \in Keys : accepted[k] <= 1 /\ handed[k] <= 1

\* C5, amended: for every key, the jobs handed to a DCSender and the
\* verifyHeaderAndExecuteTx transactions DC accepted for broadcast are at
\* most as many as the items of that key: the one the store held at the
\* start and each one SCMonitor has put there since.  A key whose block the
\* monitor handles after its hand-over is submitted once more.
OncePerStoredItem ==
    \A k \in Keys : accepted[k] <= handed[k] /\ handed[k] <= stored[k]

\* an accepted transaction for one key stored once, and a later tick that
\* handed over another key
AtMostOnceCase ==
    \E j, k \in Keys :
       /\ j # k /\ accepted[k] = 1 /\ handed[j] = 1 /\ pcR = "idle"
       /\ stored[k] = 1 /\ stored[j] = 1

\* C6: an item for which the fee check of a tick answers NOTPAY or
\* NOTPOLYPROXY, the only item of its key, is out of the store once the
\* tick is through its loop over the unpaid items, and the tick neither
\* selects it nor passes it to commitDepositEventsWithHeader, so that it
\* never reaches DC; and the store never holds an item whose hasPay is
\* NOTPAY.
NotPayDropped ==
    /\ pcR \notin {"idle", "fee", "drop"} =>
          \A k \in notPaid :
             stored[k] <= 1 =>
                /\ k \notin DOMAIN btStore
                /\ k \notin DOMAIN bridgeTransactions
                /\ k # maxFeeOfTxHash
    /\ \A k \in DOMAIN btStore : Deserialization(btStore[k]).hasPay # FEE_NOTPAY

\* what the tick does keep of it: no item whose hasPay is NOTPAY is in the
\* store, nor in the map of the tick once the loop over the unpaid items
\* is through, and the item the tick submits is not one
NotPayAfterLoop ==
    /\ \A k \in DOMAIN btStore : Deserialization(btStore[k]).hasPay # FEE_NOTPAY
    /\ pcR \notin {"idle", "fee", "drop"} =>
          \A k \in DOMAIN bridgeTransactions : Item(k).hasPay # FEE_NOTPAY
    /\ pcR \in {"balance", "commit", "estimate", "send", "delete"} =>
          maxFeeOfTxHash \in DOMAIN bridgeTransactions

\* an item answered NOTPAY and then HASPAY in one list is on its way to DC
NotPayThenPaid ==
    /\ pcR = "send"
    /\ maxFeeOfTxHash \in notPaid
    /\ stored[maxFeeOfTxHash] = 1

\* C7: in one tick at most one item is passed to
\* commitDepositEventsWithHeader and at most one item is removed from the
\* store because of a DC submission.
OneSubmissionPerTick == tickCommits <= 1 /\ tickRemoved <= 1

\* a tick has submitted and removed one item while another paid item with a
\* parseable fee is left in its map
OneSubmissionCase ==
    /\ pcR = "persist" /\ tickCommits = 1 /\ tickRemoved = 1
    /\ \E k \in DOMAIN bridgeTransactions :
          Item(k).hasPay = FEE_HASPAY /\ FeeOk(Item(k).fee)

\* C8: an item is passed to commitDepositEventsWithHeader only while its
\* hasPay is HASPAY; an item whose hasPay is NOCHECK is never submitted.
FeeGating ==
    pcR \in {"balance", "commit", "estimate", "send", "delete"} =>
       Item(maxFeeOfTxHash).hasPay = FEE_HASPAY

\* a tick submits a paid item while an item of its map is still NOCHECK
FeeGatingCase ==
    /\ pcR = "commit"
    /\ \E k \in DOMAIN bridgeTransactions : Item(k).hasPay = FEE_NOCHECK

(***************************************************************************)
(* Properties of the DC -> SC direction (SpecDC).                          *)
(***************************************************************************)
\* C3, as stated: under every interleaving of the retry tick (PutCheck then
\* DeleteRetry) with the check tick (PutRetry then DeleteCheck), a
\* CrossTransfer is absent from both buckets only if SC has imported it.
NoLossUnderInterleaving ==
    \A v \in fetched :
       v \in retryBucket \/ v \in Values(checkBucket) \/ v \in imported

(***************************************************************************)
(* Liveness of the SC -> DC direction (FairSpec).                          *)
(***************************************************************************)
\* the fee service has reported the fee of k as paid, with an amount
HasPaid(k) ==
    \/ /\ k \in DOMAIN bridgeTransactions
       /\ Item(k).hasPay = FEE_HASPAY /\ FeeOk(Item(k).fee)
    \/ /\ k \in DOMAIN btStore
       /\ Deserialization(btStore[k]).hasPay = FEE_HASPAY
       /\ FeeOk(Deserialization(btStore[k]).fee)

\* C1, as stated: every item that SCMonitor persisted and whose fee is
\* reported paid is eventually executed on DC by a confirmed
\* verifyHeaderAndExecuteTx transaction, as long as the relayer runs.
EventuallyExecuted ==
    \A k \in Keys : HasPaid(k) ~> (k \in executed \/ ~Alive)

(***************************************************************************)
(* Properties of SCMonitor (SpecMonitor).                                  *)
(***************************************************************************)
\* the monitor is back on its ticker after a tick in which a height failed
AfterFailedTick == pcM = "wait" /\ failedAt # {}

\* C9, as stated: after a tick in which handleDepositEvents returned false
\* for some height, the persisted polyHeight equals its value before the
\* tick.
FailedHeightLeavesCursor == AfterFailedTick => polyHeight = tickStartPoly

\* C9, amended: a tick in which handleDepositEvents returned false for
\* height h has passed h - 1 to UpdatePolyHeight: after it the persisted
\* polyHeight is h - 1 when that call succeeded, and its value before the
\* tick when the call failed.
FailedHeightIsNext ==
    AfterFailedTick =>
       /\ savedOk \in {"ok", "failed"}
       /\ savedOk = "ok" => failedAt = {Add32(polyHeight, 1)}
       /\ savedOk = "failed" => polyHeight = tickStartPoly

\* a tick handled a height, failed on the next one and saved the cursor
FailedHeightCase ==
    /\ AfterFailedTick /\ savedOk = "ok" /\ handledOk > 0
    /\ polyHeight # tickStartPoly

\* C10, as stated: whenever SCMonitor waits on its ticker, the first time
\* included, the persisted polyHeight equals currentHeight - 1.
CursorInvariant == pcM = "wait" => polyHeight = Sub32(currentHeight, 1)

\* C10, amended: whenever SCMonitor waits on its ticker after a tick of
\* this run has reached UpdatePolyHeight, the persisted polyHeight equals
\* currentHeight - 1 in uint32 arithmetic if the latest UpdatePolyHeight
\* succeeded, and is the value it had before the tick of that call if it
\* failed.
CursorAfterSave ==
    pcM = "wait" =>
       /\ savedOk = "ok" => polyHeight = Sub32(currentHeight, 1)
       /\ savedOk = "failed" => polyHeight = tickStartPoly

\* the monitor waits after a tick that handled a height and saved the cursor
CursorCase ==
    pcM = "wait" /\ savedOk = "ok" /\ handledOk > 0 /\ failedAt = {}

\* the monitor waits after a tick that handled a height and could not save
\* the cursor
CursorNotSaved ==
    /\ pcM = "wait" /\ savedOk = "failed" /\ handledOk > 0
    /\ polyHeight # Sub32(currentHeight, 1)

\* C11: once initialised, currentHeight changes only in the height loop, by
\* exactly +1 and only when handleDepositEvents(currentHeight) has just
\* returned true; after a height that returned false no height is handled
\* until the next tick.
MonitorOrdering ==
    [][pcM # "init" =>
         /\ currentHeight' # currentHeight =>
               /\ InHeightLoop
               /\ blockHandleResult'
               /\ currentHeight' = Add32(currentHeight, 1)
               /\ handledOk' = handledOk + 1
         /\ (InHeightLoop /\ handledOk' # handledOk) =>
               currentHeight' = Add32(currentHeight, 1)
         /\ (failedAt # {} /\ pcM # "wait") =>
               /\ currentHeight' = currentHeight
               /\ handledOk' = handledOk
               /\ failedAt' = failedAt]_vars

\* a tick handled a height, failed on the next one and left its loop
MonitorOrderingCase == pcM = "save" /\ failedAt # {} /\ handledOk > 0

(***************************************************************************)
(* Properties of the nonces of the DC senders.                             *)
(***************************************************************************)
\* the nonces of sender s that DC accepted in a transaction
BroadcastNonces(s) == {b[2] : b \in {x \in broadcast : x[1] = s}}
\* the nonces of sender s held for a transaction that is not sent yet: by
\* a route consumer, or by commitHeader
HeldNonces(s) ==
    {worker[c].nonce :
        c \in {x \in SR : x[1] = s /\ worker[x].phase \in {"sign", "send"}}}
    \cup (IF pcM = "hdrSend" /\ headerTx[1] = s THEN {headerTx[2]} ELSE {})

\* C12, as stated: for every sender the broadcast nonces run contiguously
\* from the initial nonce with no gap and no repeat: every nonce handed out
\* is broadcast, still held for its send, or back in the nonce manager,
\* in the route pipeline and in the inline commitHeader path alike.
NonceConservation ==
    \A s \in Senders :
       /\ \A n \in 0 .. (nonceNext[s] - 1) :
             \/ n \in BroadcastNonces(s)
             \/ n \in HeldNonces(s)
             \/ n \in nonceReturned[s]
       /\ \A x, y \in broadcast : (x[1] = s /\ y[1] = s /\ x[2] = y[2]) => x = y

(***************************************************************************)
(* Properties of the routes of a sender.                                   *)
(***************************************************************************)
\* the jobs of q after its first n
After(q, n) == SubSeq(q, n + 1, Len(q))

\* C13: each route has one consumer; it receives the jobs in the order they
\* were sent on the channel, and it receives a job only after sendTxToEth
\* of the previous one has returned (its confirmation wait ended in
\* success, failure or timeout), so it awaits at most one transaction.
PerRouteSerialization ==
    \A c \in SR :
       /\ Len(served[c]) <= Len(queued[c])
       /\ served[c] = SubSeq(queued[c], 1, Len(served[c]))
       /\ chans[c] = After(queued[c], Len(served[c]))
       /\ Len(served[c]) - ended[c] = IF worker[c].phase = "idle" THEN 0 ELSE 1
       /\ worker[c].phase # "idle" => worker[c].job = served[c][Len(served[c])]
       /\ queued[c] # <<>> => c[2] \in cmap[c[1]]

\* a consumer awaits the confirmation of the second job of its route,
\* after the first job of that route has ended
PerRouteCase ==
    \E c \in SR :
       Len(served[c]) = 2 /\ ended[c] = 1 /\ worker[c].phase = "confirm"

(***************************************************************************)
(* Properties of HecoManager's header sync.                                *)
(***************************************************************************)
\* SC's record is DC's hash at some height at or below H
HasAncestor(H) == \E h \in 0 .. H : syncRecord[h] = "same"

\* the highest such height
Ancestor(H) ==
    CHOOSE h \in 0 .. H :
        /\ syncRecord[h] = "same"
        /\ \A g \in (h + 1) .. H : syncRecord[g] # "same"

\* C14: a rollback called at currentHeight = H, where SC's record agrees
\* with DC at H - k (k > 0) and at no height in (H - k, H], returns with
\* currentHeight = H - k and an empty header4sync, and the first header
\* of the batch built after it is the one of height H - k + 1.
ForkRollback ==
    (rollTo # <<>> /\ HasAncestor(rollFrom[1])
                   /\ Ancestor(rollFrom[1]) < rollFrom[1]) =>
       /\ rollTo[1] = Ancestor(rollFrom[1])
       /\ rollTo[2] = <<>>
       /\ header4sync # <<>> => Head(header4sync) = Ancestor(rollFrom[1]) + 1

\* the same, for the runs in which no call to a node has failed
ForkRollbackNoFailure == rpcFails = 0 => ForkRollback

\* a rollback has walked down at least one height, and the batch is being rebuilt
ForkRollbackCase ==
    /\ rollTo # <<>> /\ HasAncestor(rollFrom[1])
    /\ Ancestor(rollFrom[1]) < rollFrom[1]
    /\ header4sync # <<>>
    /\ rpcFails = 0

(***************************************************************************)
(* Properties of commitDepositEventsWithHeader.                            *)
(***************************************************************************)
\* C15: a call whose inflated gas limit is above 300000 sends no job on a
\* channel and broadcasts nothing and returns true, and the next step of
\* the tick deletes its item from the store; a call whose limit is at most
\* 300000 goes on to the channel send and deletes nothing.
GasGuard ==
    [][/\ (pcR = "estimate" /\ gasLimit' # gasLimit) =>
             /\ gasLimit' > GasLimitMax =>
                   /\ queued' = queued /\ chans' = chans /\ cmap' = cmap
                   /\ broadcast' = broadcast
                   /\ pcR' = "delete"
             /\ gasLimit' <= GasLimitMax =>
                   /\ pcR' = "send"
                   /\ btStore' = btStore
                   /\ submitRemoved' = submitRemoved
       /\ (pcR = "delete" /\ gasLimit > GasLimitMax /\ pcR' # pcR) =>
             /\ maxFeeOfTxHash \in submitRemoved'
             /\ maxFeeOfTxHash \notin DOMAIN btStore'
             /\ queued' = queued /\ broadcast' = broadcast
             /\ pcR' = AfterCommit]_vars

\* the guard has dropped an item: the tick is past the call, the item is
\* out of the store and no job of it is on a route
GasGuardCase ==
    /\ gasLimit > GasLimitMax
    /\ pcR = AfterCommit
    /\ maxFeeOfTxHash \in submitRemoved
    /\ maxFeeOfTxHash \notin DOMAIN btStore
    /\ \A c \in SR : queued[c] = <<>>

(***************************************************************************)
(* Properties of the messages the target chain has already taken.          *)
(***************************************************************************)
\* C16: when SC answers commitProof with "tx already done", the item
\* leaves the retry bucket in that step and no check entry is made for it;
\* when DC's CheckIfFromChainTxExist answers true, the call returns true
\* with no job of the item sent on a route and nothing broadcast, and the
\* next step of the tick deletes the item from the store.
AlreadyDone ==
    [][/\ (pcW = "item" /\ retryList' # retryList /\ answer' = "done") =>
             /\ Head(retryList) \notin retryBucket'
             /\ checkBucket' = checkBucket
             /\ polyTx' = polyTx
             /\ pcW' = "item"
       /\ (pcR = "commit" /\ txExist') =>
             /\ queued' = queued /\ chans' = chans
             /\ broadcast' = broadcast
             /\ pcR' = "delete"
       /\ (pcR = "delete" /\ txExist /\ pcR' # pcR) =>
             /\ maxFeeOfTxHash \notin DOMAIN btStore'
             /\ maxFeeOfTxHash \in submitRemoved'
             /\ queued' = queued /\ broadcast' = broadcast
             /\ pcR' = AfterCommit]_vars

\* both have happened: SC has answered "tx already done" for an item that
\* is out of the retry bucket, and DC has answered that the message
\* exists for an item that is out of the store
AlreadyDoneCase ==
    /\ answer = "done"
    /\ \E v \in Transfers : v \in imported /\ v \notin retryBucket
    /\ txExist /\ pcR = AfterCommit
    /\ maxFeeOfTxHash \notin DOMAIN btStore
    /\ broadcast = {}

(***************************************************************************)
(* Properties of the items of the store.                                   *)
(***************************************************************************)
\* C17: every item of the bridge_transactions bucket has an allowed
\* method, after SCMonitor's persist steps and after the relay tick's
\* rewrite of the items it keeps.
AllowedMethods ==
    \A k \in DOMAIN btStore : MethodOf(k) \in METHODS

\* the block with an event of another method has been handled, and the
\* store holds an item that a relay tick has rewritten with its fee
AllowedMethodsCase ==
    /\ \E h \in DOMAIN scEvents :
          /\ \E k \in scEvents[h] : MethodOf(k) \notin METHODS
          /\ Lt32(h, currentHeight)
    /\ \E k \in DOMAIN btStore : Deserialization(btStore[k]).hasPay = FEE_HASPAY

\* C18: every BridgeTransaction marked HASPAY, in the tick's map or in the
\* store, has a fee that parses as a number, whatever amount the fee
\* service answered.
FeeWellFormed ==
    /\ \A k \in DOMAIN bridgeTransactions :
          bridgeTransactions[k].hasPay = FEE_HASPAY =>
             FeeOk(bridgeTransactions[k].fee)
    /\ \A k \in DOMAIN btStore :
          Deserialization(btStore[k]).hasPay = FEE_HASPAY =>
             FeeOk(Deserialization(btStore[k]).fee)

(***************************************************************************)
(* Properties of the binary forms.                                         *)
(***************************************************************************)
\* C19: what Deserialization reads from what Serialization wrote is the
\* value written, field by field, for every BridgeTransaction (also with
\* one of headerProof and anchorHeader alone, with an empty fee, with each
\* pay state) and for every CrossTransfer.
RoundTrip == pcT = "out" => rtOutput = rtInput

\* the same, for the CrossTransfers and for the BridgeTransactions that
\* hold both the proof and the anchor, or neither
RoundTripPaired ==
    (/\ pcT = "out"
     /\ rtInput[1] = "BridgeTransaction" =>
           (rtInput[2].headerProof = "") = (rtInput[2].anchorHeader = NoAnchor))
    => rtOutput = rtInput

(***************************************************************************)
(* Properties of the epoch change.                                         *)
(***************************************************************************)
\* the events of a height that pass every filter of the event loop
Qualifying(h) == {k \in EventsAt(h) : MethodOf(k) \in METHODS}

\* a step of the height loop in which handleDepositEvents ran to its end
HandledToEnd ==
    /\ EndsHeight
    /\ headerCall' # "early"

\* C20: at a height with isEpoch, isCurr and EnableChangeBookKeeper and
\* no qualifying event, handleDepositEvents calls commitHeader once,
\* persists nothing and returns what commitHeader returned; at a height
\* with a qualifying event it does not call commitHeader.
EpochWithoutEvents ==
    [][HandledToEnd =>
          /\ (isEpochCurr' /\ EnableChangeBookKeeper
                 /\ Qualifying(currentHeight) = {}) =>
                /\ headerCall' \in {"true", "false"}
                /\ cnt = 0
                /\ btStore' = btStore
                /\ blockHandleResult' = (headerCall' = "true")
                /\ Cardinality(broadcast') <= Cardinality(broadcast) + 1
          /\ Qualifying(currentHeight) # {} => headerCall' = "none"]_vars

\* the same, with the events that were persisted in place of the
\* qualifying ones
EpochWithoutPersisted ==
    [][HandledToEnd =>
          /\ (isEpochCurr' /\ EnableChangeBookKeeper
                 /\ Qualifying(currentHeight) = {}) =>
                /\ headerCall' \in {"true", "false"}
                /\ cnt = 0
                /\ btStore' = btStore
                /\ blockHandleResult' = (headerCall' = "true")
                /\ Cardinality(broadcast') <= Cardinality(broadcast) + 1
          /\ (\E k \in Qualifying(currentHeight) : k \in DOMAIN btStore') =>
                headerCall' = "none"]_vars

(***************************************************************************)
(* Properties of IsEpoch.                                                  *)
(***************************************************************************)
\* the keys of a list
KeySet(l) == {l[i] : i \in 1 .. Len(l)}

\* C21: IsEpoch returns (false, empty) for a header without a next
\* bookkeeper or without a new chain config, and for one whose peer set
\* is the set DC reports; in every other case it returns true and the
\* uncompressed keys of the peers, each once, in ascending order of key.
EpochDetection ==
    (pcT = "out" /\ rtInput[1] = "IsEpoch" /\ ~rtInput[3].err) =>
       LET hdr   == rtInput[2]
           raw   == rtInput[3].rawKeepers
           peers == KeySet(hdr.NewChainConfig.Peers)
           none  == hdr.NextBookkeeper = ADDRESS_EMPTY
                    \/ ~hdr.NewChainConfig.present
           same  == \E l \in PeerLists :
                       /\ KeySet(l) = peers
                       /\ \A i \in 1 .. (Len(l) - 1) : l[i] < l[i + 1]
                       /\ raw = KeepersWire(l)
       IN /\ ~rtOutput[3]
          /\ rtOutput[1] = (~none /\ ~same)
          /\ ~rtOutput[1] => rtOutput[2] = <<>>
          /\ rtOutput[1] =>
                /\ Len(rtOutput[2]) = 2 * Cardinality(peers)
                /\ \A k \in peers : \E i \in 1 .. Cardinality(peers) :
                       <<rtOutput[2][2 * i - 1], rtOutput[2][2 * i]>>
                          = GetNoCompresskey(k)
                /\ \A i \in 1 .. (Cardinality(peers) - 1) :
                       rtOutput[2][2 * i - 1] < rtOutput[2][2 * i + 1]

\* a header lists DC's keepers in another order than the sorted one, and
\* IsEpoch has answered for it
EpochDetectionCase ==
    /\ pcT = "out" /\ rtInput[1] = "IsEpoch" /\ ~rtInput[3].err
    /\ rtInput[2].NextBookkeeper # ADDRESS_EMPTY
    /\ rtInput[2].NewChainConfig.present
    /\ rtInput[2].NewChainConfig.Peers # SortPublicKeys(rtInput[2].NewChainConfig.Peers)
    /\ rtInput[3].rawKeepers = KeepersWire(SortPublicKeys(rtInput[2].NewChainConfig.Peers))
    /\ ~rtOutput[1]

(***************************************************************************)
(* Properties of PolyManager.init.                                         *)
(***************************************************************************)
\* the largest number of a set
Largest(S) == CHOOSE h \in S : \A g \in S : g <= h

Started == pcM = "wait" /\ latestheight = 0 /\ handledOk = 0 /\ savedOk = "none"

\* C22 as stated: after init whose epoch start query was answered,
\* currentHeight is the largest of the flag, the persisted height and DC's
\* epoch start height.
StartIsMaximum ==
    (Started /\ rpcFails = 0) =>
       currentHeight = Largest({startFlag, polyHeight, epochStart})

\* C22: after init, currentHeight is the flag when the flag is positive;
\* without a flag it is the larger of the persisted height and DC's epoch
\* start height, the latter counting as 0 when its query failed.
StartHeight ==
    Started =>
       currentHeight =
          IF startFlag > 0 THEN startFlag
          ELSE Largest({polyHeight, IF rpcFails = 0 THEN epochStart ELSE 0})

\* init has started from a flag below the persisted height
StartHeightCase ==
    /\ Started
    /\ startFlag > 0
    /\ startFlag < polyHeight
    /\ startFlag < epochStart
    /\ currentHeight = startFlag

(***************************************************************************)
(* Properties of the header batch.                                         *)
(***************************************************************************)
\* the height loop captures the header of the next height
Captures ==
    /\ pcH = "loop"
    /\ captured'.hdr = "ok"

\* the parent of every header of the batch is the header before it in the
\* batch, or is what SC has recorded
ParentsKnown ==
    \A i \in 1 .. Len(header4sync) :
       \/ i > 1 /\ header4sync[i - 1] = header4sync[i] - 1
       \/ /\ header4sync[i] - 1 \in HecoHeights
          /\ syncRecord[header4sync[i] - 1] = "same"

\* the heights of the batch go up
Increasing ==
    \A i, j \in 1 .. Len(header4sync) :
       i < j => header4sync[i] < header4sync[j]

\* C23 as stated: the parent of every header of the batch is in the batch
\* or recorded on SC, the heights of the batch go up, and the capture of a
\* header whose hash is not the one SC has recorded empties the batch.
HeaderBatchDiscards ==
    [][/\ ParentsKnown'
       /\ Increasing'
       /\ (Captures /\ syncRecord[hecoCurrentHeight + 1] = "other")
             => header4sync' = <<>>]_vars

\* C23: the heights of the batch go up.  Outside rollBackToCommAncestor
\* none is above currentHeight, but for the last one, which is
\* currentHeight + 1 from its append in handleBlockHeader until the
\* events of that height are fetched and currentHeight is stepped.  The
\* capture of a header leaves the batch as it is only if SC's record for
\* the height was read and is the hash of the header; if the record is
\* another hash, or is empty, or was not read, the capture appends the
\* header to the batch.  The batch loses headers only by becoming empty,
\* at the end of the wait after SyncBlockHeader or in
\* rollBackToCommAncestor.
HeaderBatch ==
    [][/\ Increasing'
       /\ \A i \in 1 .. Len(header4sync') :
             \/ ~Lt64(hecoCurrentHeight', header4sync'[i])
             \/ pcH' = "rollback"
             \/ /\ pcH' \in {"events", "put"}
                /\ i = Len(header4sync')
                /\ header4sync'[i] = hecoCurrentHeight' + 1
       /\ (Captures /\ header4sync' = header4sync)
             => (captured'.read /\ syncRecord[hecoCurrentHeight + 1] = "same")
       /\ (Captures /\ (~captured'.read
                            \/ syncRecord[hecoCurrentHeight + 1] # "same"))
             => header4sync' = Append(header4sync, hecoCurrentHeight + 1)
       /\ (\E i \in 1 .. Len(header4sync) :
                i > Len(header4sync') \/ header4sync'[i] # header4sync[i])
             => (header4sync' = <<>> /\ pcH \in {"confirm", "rollback"})]_vars

\* a header whose hash is not the one SC has recorded has joined a batch
\* that held a header, and the batch is about to be sent
HeaderBatchCase ==
    /\ pcH = "commit"
    /\ Len(header4sync) = 2
    /\ syncRecord[header4sync[2]] = "other"
    /\ syncRecord[header4sync[2] - 1] = "none"

\* the header of a height whose record on SC is its hash has joined the
\* batch, the record not having been read; the events of the height are
\* being fetched
HeaderUnread ==
    /\ pcH \in {"events", "put"}
    /\ ~captured.read
    /\ header4sync # <<>>
    /\ header4sync[Len(header4sync)] = hecoCurrentHeight + 1
    /\ syncRecord[hecoCurrentHeight + 1] = "same"

(***************************************************************************)
(* Properties of the shutdown.                                             *)
(***************************************************************************)
\* Stop has been called and its send taken by a goroutine of PolyManager,
\* which returned; the other goroutine returns after the close
StopReturnsPoly ==
    exitChan["PolyManager"] \in {"close", "closed"} =>
       \E t \in Tasks :
          /\ TaskManager(t) = "PolyManager"
          /\ task[t] = "returned"

\* no goroutine of HecoManager ever returns, and none of PolyManager
\* without a call of Stop
ReturnsOnlyByStop ==
    \A t \in Tasks :
       task[t] = "returned" =>
          /\ TaskManager(t) = "PolyManager"
          /\ exitChan["PolyManager"] \in {"close", "closed"}

\* C24: once the signal handler has fired, the exitChan of both managers
\* gets closed and every goroutine of the managers returns from its
\* select.
GracefulShutdown ==
    (signal # "none") ~>
       (/\ \A m \in Managers : exitChan[m] = "closed"
        /\ \A t \in Tasks : task[t] = "returned")

(***************************************************************************)
(* Properties of the failures of handleDepositEvents.                      *)
(***************************************************************************)
\* handleDepositEvents returns, or dies, after a call of it or of
\* commitHeader has failed
HandledWithFailure ==
    /\ EndsHeight
    /\ handleFails' > 0

\* C25: when a call made while handling a height fails,
\* handleDepositEvents returns false, currentHeight stays at the height
\* and no qualifying event of the height is passed over unpersisted.
TransientFailure ==
    [][HandledWithFailure =>
          /\ blockHandleResult' = FALSE
          /\ currentHeight' = currentHeight
          /\ \A k \in Qualifying(currentHeight) :
                k \in DOMAIN btStore' \/ currentHeight' = currentHeight]_vars

\* the part of C25 that the code keeps: a height whose handling returned
\* false is not stepped over
FailedHeightStays ==
    [][(EndsHeight /\ blockHandleResult' = FALSE)
         => currentHeight' = currentHeight]_vars

(***************************************************************************)
(* Properties of the height bounds.                                        *)
(***************************************************************************)
\* the height loop is about to call handleDepositEvents(currentHeight)
InvokesHandle ==
    /\ pcM = "loop"
    /\ InSafeRange(currentHeight, latestheight)

\* C26: handleDepositEvents(h) is invoked only for h <= latest -
\* POLY_USEFUL_BLOCK_NUM on uint32, latest being the height that
\* GetCurrentBlockHeight returned in the tick (latestheight + 1).
SafeHeightBound ==
    InvokesHandle =>
       Le32(currentHeight,
            Sub32(Add32(latestheight, 1), POLY_USEFUL_BLOCK_NUM))

\* the part of C26 that the code keeps: the bound holds in the ticks in
\* which GetCurrentBlockHeight returned 2 or more
SafeHeightBoundFrom2 ==
    (InvokesHandle /\ latestheight >= 1) =>
       /\ Le32(currentHeight, Sub32(latestheight, POLY_USEFUL_BLOCK_NUM))
       /\ currentHeight >= 0

\* the height loop of MonitorHecoChain is about to capture the header and
\* the events of currentHeight + 1
InvokesCapture ==
    /\ pcH = "loop"
    /\ HecoInRange(hecoCurrentHeight, hecoLatest)

\* C27: header capture and event capture are attempted only for heights
\* h with currentHeight < h and h + BlockConfig <= latest, latest being
\* DC's node height read in the tick.
FinalityBound ==
    InvokesCapture =>
       /\ Lt64(hecoCurrentHeight, hecoCurrentHeight + 1)
       /\ hecoCurrentHeight + 1 + BlockConfig <= hecoLatest

\* the part of C27 that the code keeps: the bound holds in the ticks in
\* which DC's node height is BlockConfig or more
FinalityBoundFromConfig ==
    (InvokesCapture /\ hecoLatest >= BlockConfig) =>
       hecoCurrentHeight + 1 + BlockConfig <= hecoLatest

(***************************************************************************)
(* Properties of the proof height.                                         *)
(***************************************************************************)
ProofDone == pcT = "out" /\ rtInput[1] = "ProofHeight"

\* C28 as stated: an item is submitted only when H > ct.height +
\* CommitProofBlockConfig, and the proof is asked for and committed at
\* H - CommitProofBlockConfig, H being DC's node height of the tick.
ProofHeightOfLatest ==
    (ProofDone /\ rtOutput.step = "submit") =>
       /\ rtInput[2] > rtInput[4] + CommitProofBlockConfig
       /\ rtOutput.getProof = rtInput[2] - CommitProofBlockConfig
       /\ rtOutput.commitProof = rtInput[2] - CommitProofBlockConfig

\* C28: the same with H the DC height that SC has synced, in a tick in
\* which DC's node height is not below it; and every such item is
\* submitted.
ProofHeightOfSynced ==
    ProofDone =>
       /\ rtOutput.step = "submit" <=>
             /\ rtInput[2] >= rtInput[3]
             /\ rtInput[3] > rtInput[4] + CommitProofBlockConfig
       /\ rtOutput.step = "submit" =>
             /\ rtOutput.getProof = rtInput[3] - CommitProofBlockConfig
             /\ rtOutput.commitProof = rtInput[3] - CommitProofBlockConfig

\* an item was submitted in a tick in which DC's node is ahead of what SC
\* has synced
ProofHeightCase ==
    /\ ProofDone
    /\ rtOutput.step = "submit"
    /\ rtInput[2] > rtInput[3]
    /\ rtOutput.getProof < rtInput[2] - CommitProofBlockConfig

(***************************************************************************)
(* Properties of checkLockDepositEvents.                                   *)
(***************************************************************************)
\* the loop of the check tick is through with the entry k in this step
EntryDone(k) ==
    /\ pcC \in {"item", "delcheck"}
    /\ k \in DOMAIN checkMap
    /\ k \notin DOMAIN checkMap'

\* the loop takes the entry k for a failed transaction in this step
PutsBack(k) ==
    /\ pcC = "item"
    /\ pcC' = "delcheck"
    /\ checkKey' = k

\* C29 as stated: an entry whose receipt has a state other than 1 has its
\* item put back into the retry bucket, and whatever the fetch of the
\* receipt gave, the entry is out of the check bucket when the loop is
\* through with it.
CheckAlwaysDeletes ==
    [][\A k \in DOMAIN checkMap :
          /\ PutsBack(k) => checkMap[k] \in retryBucket'
          /\ EntryDone(k) => k \notin DOMAIN checkBucket']_vars

\* C29: an entry is taken for a failure only on a receipt whose state is
\* not 1, and its item is then put back into the retry bucket before the
\* entry is deleted; an entry whose receipt was fetched is out of the
\* check bucket when the loop is through with it; an entry whose fetch
\* failed or that has no receipt yet stays in the check bucket and the
\* retry bucket is left alone.
CheckDeposit ==
    [][\A k \in DOMAIN checkMap :
          /\ PutsBack(k) =>
                /\ polyTx[k].done /\ polyTx[k].State # 1
                /\ checkMap[k] \in retryBucket'
                /\ checkBucket' = checkBucket
          /\ (EntryDone(k) /\ pcC = "delcheck") =>
                k = checkKey /\ k \notin DOMAIN checkBucket'
          /\ (EntryDone(k) /\ pcC = "item") =>
                IF rpcFails' > rpcFails \/ ~polyTx[k].done
                THEN checkBucket' = checkBucket /\ retryBucket' = retryBucket
                ELSE /\ polyTx[k].State = 1
                     /\ k \notin DOMAIN checkBucket'
                     /\ retryBucket' = retryBucket]_vars

\* the receipt of an entry says the transaction failed, and its item is
\* back in the retry bucket while the entry is still to be deleted
CheckDepositCase ==
    /\ pcC = "delcheck"
    /\ checkKey \in DOMAIN checkBucket
    /\ polyTx[checkKey].done /\ polyTx[checkKey].State # 1
    /\ checkBucket[checkKey] \in retryBucket

(***************************************************************************)
(* Properties of the outcome of commitHecoHeaderToPoly.                    *)
(***************************************************************************)
\* C30: when SyncBlockHeader fails for another reason than a missing
\* parent or field, the batch and currentHeight stay as they are and
\* the tick is over; when it succeeds the batch stays as it is until a
\* poll gives the transaction a block height above 0 and below SC's
\* current height, and is emptied by that poll.
CommitOutcome ==
    [][/\ (pcH = "commit" /\ pcH' \notin {"confirm", "rollback"}) =>
             /\ pcH' = "wait"
             /\ header4sync' = header4sync
             /\ hecoCurrentHeight' = hecoCurrentHeight
       /\ (pcH = "commit" /\ pcH' = "confirm") => header4sync' = header4sync
       /\ pcH = "confirm" =>
             IF syncTxHeight' > 0 /\ syncTxHeight' < syncCurr'
             THEN header4sync' = <<>> /\ pcH' = retH
             ELSE header4sync' = header4sync /\ pcH' = "confirm"]_vars

\* a batch was emptied by a poll that found its transaction in block 1
\* with SC at height 2
CommitOutcomeCase ==
    /\ pcH \in {"wait", "loop"}
    /\ header4sync = <<>>
    /\ syncTxHeight = 1
    /\ syncCurr = 2
    /\ hecoCurrentHeight > 1

(***************************************************************************)
(* Properties of the errors of the retry tick.                             *)
(***************************************************************************)
\* the loop of the retry tick leaves the head of its list in this step
\* without a transaction, because of out
PassesOver(out) ==
    /\ pcW = "item"
    /\ retryList # <<>>
    /\ retryList' = Tail(retryList)
    /\ answer' = out

\* C31: when the proof fetch fails, or commitProof fails for want of utxo
\* or with another error than "tx already done", the item is in the retry
\* bucket afterwards, the retry bucket and the check bucket are as they
\* were and no SC transaction exists for it; and every tick lists every
\* item of the retry bucket.
RetryRetention ==
    [][/\ (\E out \in {"noProof", "utxo", "error"} : PassesOver(out)) =>
             /\ Head(retryList) \in retryBucket'
             /\ retryBucket' = retryBucket
             /\ checkBucket' = checkBucket
             /\ polyTx' = polyTx
       /\ (pcW = "idle" /\ pcW' = "item") =>
             \A v \in retryBucket : \E i \in 1 .. Len(retryList') : retryList'[i] = v]_vars

\* commitProof has failed for an item and a later tick has the item in
\* its list again
RetryRetentionCase ==
    /\ pcW = "item"
    /\ answer \in {"utxo", "error"}
    /\ Len(retryList) = Cardinality(retryBucket)
    /\ retryList # <<>>
    /\ checkBucket = <<>>
    /\ polyTx = <<>>

(***************************************************************************)
(* Properties of the fee check.                                            *)
(***************************************************************************)
FeeDone == pcT = "out" /\ rtInput[1] = "CheckFee"

\* the entries of the list for the hash k that carry no error
FeeAnswers(k) ==
    {rtInput[4][i].rsp : i \in {j \in 1 .. Len(rtInput[4]) :
                                  rtInput[4][j].Hash = k /\ ~rtInput[4][j].rsp.error}}

\* the item of hash k is as the claim allows after the fee check
FeeFrameOf(k) ==
    LET old == rtInput[2][k]
        new == rtOutput.items[k]
    IN /\ old.hasPay # FEE_NOCHECK => new = old
       /\ (old.hasPay = FEE_NOCHECK /\ new # old) =>
             /\ rtInput[3]
             /\ \E r \in FeeAnswers(k) :
                   \/ /\ r.state = "HASPAY"
                      /\ new = [old EXCEPT !.hasPay = FEE_HASPAY, !.fee = r.amount]
                   \/ /\ r.state \in {"NOTPAY", "NOTPOLYPROXY"}
                      /\ new = [old EXCEPT !.hasPay = FEE_NOTPAY]
       /\ (old.hasPay = FEE_NOCHECK /\ new = old) =>
             \/ ~rtInput[3]
             \/ \A r \in FeeAnswers(k) : r.state = "NOTCHECK"

\* C32: the tick asks the fee service for the items whose hasPay is
\* NOCHECK only; an item that is not NOCHECK keeps its hasPay and fee; a
\* NOCHECK item changes only on an entry HASPAY (to HASPAY with the
\* amount) or NOTPAY / NOTPOLYPROXY (to NOTPAY) and is unchanged on
\* another state, an entry with an error or a failed call.
FeeFrame ==
    FeeDone =>
       /\ rtOutput.asked = {k \in FeeKeys : rtInput[2][k].hasPay = FEE_NOCHECK}
       /\ \A k \in FeeKeys : FeeFrameOf(k)

\* the list names only hashes that were asked for, each once, and a call
\* that returns an error returns no list
FeeListAsked ==
    /\ rtInput[3] \/ rtInput[4] = <<>>
    /\ \A i \in 1 .. Len(rtInput[4]) : rtInput[4][i].Hash \in rtOutput.asked
    /\ \A i, j \in 1 .. Len(rtInput[4]) :
          i # j => rtInput[4][i].Hash # rtInput[4][j].Hash

\* the part of C32 that the code keeps: the same for a fee service that
\* answers for the hashes it was asked, once each, or with an error alone
FeeFrameAsked == (FeeDone /\ FeeListAsked) => FeeFrame

(***************************************************************************)
(* Properties of selectSender.                                             *)
(***************************************************************************)
SenderDone == pcT = "out" /\ rtInput[1] = "selectSender"

\* some sender has a balance
SomeBalance == \E j \in 1 .. Len(rtInput[2]) : rtInput[2][j] # Wei(0, 0)

\* the sum of all balances is below 2^63 wei
BelowInt64 == SumTo(rtInput[2], Len(rtInput[2])).hi < 4

\* the sender returned is the first whose prefix sum is at least the
\* number drawn
SelectsFirstPrefix ==
    SenderDone =>
       LET balances == rtInput[2]
           i == rtOutput[1]
       IN /\ i \in 1 .. Len(balances)
          /\ ~LtWei(SumTo(balances, i), rtInput[3])
          /\ \A j \in 1 .. (i - 1) : LtWei(SumTo(balances, j), rtInput[3])

\* C33: selectSender returns the first sender whose prefix sum is at
\* least the number drawn from [0, total), and never a sender whose
\* balance is 0 while some sender has a positive balance.
ZeroBalanceUnreachable ==
    /\ SelectsFirstPrefix
    /\ (SenderDone /\ SomeBalance) => rtInput[2][rtOutput[1]] # Wei(0, 0)

\* what the code keeps while the balances sum to less than 2^63 wei: the
\* first prefix sum that reaches the number drawn is taken
SelectsFirstPrefixBelowInt64 == BelowInt64 => SelectsFirstPrefix

\* and a sender without balance is returned only when it stands before
\* every sender with a balance and the number drawn is 0
ZeroBalanceOnlyFirst ==
    (SenderDone /\ SomeBalance /\ BelowInt64) =>
       \/ rtInput[2][rtOutput[1]] # Wei(0, 0)
       \/ rtInput[3] = Wei(0, 0) /\ rtOutput[1] = 1

\* from 2^63 wei on the sender returned can be one whose prefix sum is
\* below the number drawn
Int64WrapCase ==
    /\ SenderDone
    /\ ~BelowInt64
    /\ LtWei(SumTo(rtInput[2], rtOutput[1]), rtInput[3])

(***************************************************************************)
(* The waits for a confirmation.                                           *)
(***************************************************************************)
\* C34: every confirmation wait ends after a bounded number of polls, also
\* for a transaction that is never included; for the wait of
\* commitHecoHeaderToPoly: a wait that has begun comes to its end.
SyncWaitEnds == (pcH = "confirm") ~> (pcH # "confirm")

\* the wait of commitHecoHeaderToPoly goes on exactly while the polls do
\* not show the transaction below SC's height
SyncWaitGoesOn ==
    [][(pcH = "confirm" /\ pcH' = "confirm") =>
          ~Confirmed(syncTxHeight', syncCurr')]_vars

(***************************************************************************)
(* The epoch change and the cursor of SCMonitor.                           *)
(***************************************************************************)
\* the loop of MonitorPolyChain steps over a height at which
\* handleDepositEvents called commitHeader
PassesEpochHeight ==
    /\ InHeightLoop
    /\ currentHeight' = Add32(currentHeight, 1)
    /\ isEpochCurr'
    /\ headerCall' # "none"

\* C35: SCMonitor steps over an epoch-change height only if the
\* changeBookKeeper transaction for that height was confirmed successful
\* on DC: DC's epoch start is then the height of the header.
EpochCommitBeforeAdvance ==
    [][PassesEpochHeight => epochStart' = Add32(currentHeight, 1)]_vars

\* what the code keeps: the height is stepped over only after the
\* transaction was broadcast, and stays when a step before the broadcast
\* failed
EpochSentBeforeAdvance ==
    [][(EndsHeight /\ isEpochCurr' /\ headerCall' # "none") =>
          /\ PassesEpochHeight =>
                /\ headerCall' = "true"
                /\ <<headerTx[1], headerTx[2], "header">> \in broadcast
          /\ headerCall' = "false" =>
                /\ currentHeight' = currentHeight
                /\ epochStart' = epochStart
                /\ Len(headerTx) = 2 =>
                      <<headerTx[1], headerTx[2], "header">> \notin broadcast']_vars

\* C36: in every state after init the persisted polyHeight, read as a
\* 32-bit unsigned integer, is at most SCMonitor's currentHeight; a tick
\* whose first height fails at currentHeight 0 persists no wrapped value.
PersistedNotAhead == pcM # "init" => Le32(polyHeight, currentHeight)

\* the same for every cursor but 0: a save leaves polyHeight one below
\* currentHeight
PersistedOneBelow ==
    [][(pcM = "save" /\ pcM' = "wait" /\ savedOk' = "ok" /\ currentHeight # 0) =>
          /\ Add32(polyHeight', 1) = currentHeight
          /\ Lt32(polyHeight', currentHeight')]_vars

(***************************************************************************)
(* The cursor of DCMonitor.                                                *)
(***************************************************************************)
\* C37: outside a rollback currentHeight goes from h-1 to h only after the
\* header fetch for h succeeded and an event fetch for h succeeded, every
\* event fetch before it having failed; a failing header fetch leaves
\* currentHeight and ends the loop of the tick; no other step moves
\* currentHeight.
NeverSkipsHeight ==
    [][pcH # "rollback" =>
          /\ hecoCurrentHeight' \in {hecoCurrentHeight, hecoCurrentHeight + 1}
          /\ hecoCurrentHeight' = hecoCurrentHeight + 1 =>
                /\ pcH \in {"loop", "events", "put"}
                /\ captured'.hdr = "ok"
                /\ captured'.events # <<>>
                /\ \A i \in 1 .. Len(captured'.events) :
                      captured'.events[i] = (i = Len(captured'.events))
          /\ (pcH = "loop" /\ captured'.hdr = "failed") =>
                /\ hecoCurrentHeight' = hecoCurrentHeight
                /\ header4sync' = header4sync
                /\ pcH' = "wait"]_vars

\* currentHeight went up after an event fetch that failed and one that
\* succeeded
NeverSkipsHeightCase ==
    /\ captured.hdr = "ok"
    /\ captured.events = <<FALSE, TRUE>>
    /\ hecoCurrentHeight > 1
    /\ pcH \in {"loop", "commit"}

\* the loop of a tick ended at a header fetch that failed
HeaderFetchFailedCase ==
    /\ captured.hdr = "failed"
    /\ pcH = "wait"
    /\ Lt64(hecoCurrentHeight, hecoLatest - BlockConfig)

(***************************************************************************)
(* The end of a tick of handleLockDepositEvents.                           *)
(***************************************************************************)
\* C38: every tick of handleLockDepositEvents returns to the ticker when
\* each call returns, with an error or without: neither the balance loop
\* of selectSender nor the send on a full route channel holds the worker
\* for ever.
TickReturns == (pcR # "idle") ~> (pcR = "idle")

\* the balance loop alone
BalanceLoopEnds == (pcR = "balance") ~> (pcR # "balance")

\* the send on the route channel alone
ChannelSendEnds == (pcR = "send") ~> (pcR = "idle")

\* no call of this step answers with an error
NoCallFails == rpcFails' <= rpcFails

\* what the code keeps: the tick returns when from some time on no call
\* fails
TickReturnsWithoutErrors == (<>[][NoCallFails]_vars) => TickReturns

====
